---------------------------- MODULE Spec2Model ----------------------------
(***************************************************************************)
(* A model of the HTML translation pipeline of the AI-Translation-API:     *)
(* the response parser, the chunker, the structural and the flat text      *)
(* extractor / reconstructor and the orchestrator in                       *)
(* app/utils/ollama_services.py, and TranslationService.translate in       *)
(* app/services/translation.py.                                            *)
(*                                                                         *)
(* A Python str is a sequence of one-character strings, so that len(),     *)
(* slicing, str.split, str.strip, str.count and str.rfind are computed as  *)
(* Python computes them.                                                   *)
(***************************************************************************)
EXTENDS Integers, Sequences, FiniteSets, TLC

VARIABLES
    \* OllamaService._parse_numbered_translation
    translation_response,   \* the argument translation_response
    expected_count,         \* the argument expected_count
    parsed,                 \* the returned list
    ppc,                    \* "call" before the call, "done" after the return
    \* OllamaService.split_html_into_chunks
    html,                   \* the argument html
    max_chars,              \* the argument max_chars
    final_chunks,           \* the list final_chunks of tiers 1 and 2
    safe_final,             \* the list safe_final of tier 3
    chunk_idx,              \* tier 3: the 1-based position in final_chunks
    start,                  \* tier 3: the window start in the current chunk
    returned,               \* the returned list
    cpc,                    \* the position in split_html_into_chunks
    \* OllamaService.extract_text_with_structure / reconstruct_html_from_structure
    html_content,           \* the chunk handed to extract_text_with_structure
    text_segments,          \* the extracted segments
    structure_map,          \* the extracted structure map
    translated_segments,    \* the list handed to reconstruct_html_from_structure
    result,                 \* the reconstructed HTML
    spc,                    \* the position in the extract / reconstruct round
    \* TranslationService.translate and OllamaService.translate_html_content,
    \* every variable a function of the request that is being served
    request,                \* the TranslationRequest
    rpc,                    \* the position of the coroutine serving the request
    field_no,               \* 1, 2, 3: the title, body or section call of
                            \* translate_html_content that is running
    chunks,                 \* per call of translate_html_content, the list chunks
    translated_chunks,      \* per call, the list translated_chunks
    chunk_no,               \* per call, the 1-based position of the loop over chunks
    translated_fields,      \* the values the calls have returned so far
    calls,                  \* the calls of generate_translation, in the order
                            \* they were made, each with the reply it got
    response,               \* the TranslationResponse
    \* ResumeService.summarize
    resume_request,         \* the ResumeRequest
    resume_calls,           \* the calls of generate_translation it has made
    resume_response,        \* the ResumeResponse
    rspc,                   \* the position in summarize
    \* extract_text_from_html and reconstruct_html (the flat strategy)
    flat_html,              \* the HTML given to extract_text_from_html
    flat_segments,          \* the text segments it returns
    flat_template,          \* the placeholder template it returns
    flat_translated,        \* the list given to reconstruct_html
    flat_result,            \* what reconstruct_html returns
    flat_calls,             \* the calls of generate_translation of the legacy path
    fpc,                    \* the position in the round trip
    sanitize_input,         \* the html given to sanitize_html
    sanitize_output,        \* what sanitize_html returns
    hpc                     \* the position in the call of sanitize_html

parserVars == <<translation_response, expected_count, parsed, ppc>>

chunkerVars ==
    <<html, max_chars, final_chunks, safe_final, chunk_idx, start, returned, cpc>>

structVars ==
    <<html_content, text_segments, structure_map, translated_segments, result, spc>>

pipeVars ==
    <<request, rpc, field_no, chunks, translated_chunks, chunk_no, translated_fields,
      calls, response>>

resumeVars == <<resume_request, resume_calls, resume_response, rspc>>

flatVars ==
    <<flat_html, flat_segments, flat_template, flat_translated, flat_result,
      flat_calls, fpc>>

sanitizeVars == <<sanitize_input, sanitize_output, hpc>>

vars ==
    <<parserVars, chunkerVars, structVars, pipeVars, resumeVars, flatVars,
      sanitizeVars>>

\* What each component leaves alone.
notParserVars ==
    <<chunkerVars, structVars, pipeVars, resumeVars, flatVars,
      sanitizeVars>>
notChunkerVars ==
    <<parserVars, structVars, pipeVars, resumeVars, flatVars,
      sanitizeVars>>
notStructVars ==
    <<parserVars, chunkerVars, pipeVars, resumeVars, flatVars,
      sanitizeVars>>
notPipeVars ==
    <<parserVars, chunkerVars, structVars, resumeVars, flatVars,
      sanitizeVars>>
notResumeVars ==
    <<parserVars, chunkerVars, structVars, pipeVars, flatVars,
      sanitizeVars>>
notFlatVars ==
    <<parserVars, chunkerVars, structVars, pipeVars, resumeVars, sanitizeVars>>
notSanitizeVars ==
    <<parserVars, chunkerVars, structVars, pipeVars, resumeVars, flatVars>>

\* The requests that may be served at the same time.
Requests == {"r1", "r2"}

\* The state of a component that is not running.
ParserIdle ==
    /\ translation_response = <<>>
    /\ expected_count = 0
    /\ parsed = <<>>
    /\ ppc = "idle"

ChunkerIdle ==
    /\ html = <<>>
    /\ max_chars = 0
    /\ final_chunks = <<>>
    /\ safe_final = <<>>
    /\ chunk_idx = 0
    /\ start = 0
    /\ returned = <<>>
    /\ cpc = "idle"

StructIdle ==
    /\ html_content = <<>>
    /\ text_segments = <<>>
    /\ structure_map = [type |-> "none"]
    /\ translated_segments = <<>>
    /\ result = <<>>
    /\ spc = "idle"

\* No request has arrived.
NoRequest == [title |-> <<>>, body |-> <<>>, section |-> <<>>,
              target_language |-> <<>>, model |-> "none"]
NoResponse == [translated_text |-> [title |-> <<>>, body |-> <<>>, section |-> <<>>],
               success |-> FALSE, model_used |-> "none"]

FlatIdle ==
    /\ flat_calls = <<>>
    /\ flat_html = <<>>
    /\ flat_segments = <<>>
    /\ flat_template = <<>>
    /\ flat_translated = <<>>
    /\ flat_result = <<>>
    /\ fpc = "idle"

SanitizeIdle ==
    /\ sanitize_input = <<>>
    /\ sanitize_output = <<>>
    /\ hpc = "idle"

ResumeIdle ==
    /\ resume_request = [article |-> <<>>, esArticle |-> <<>>]
    /\ resume_calls = <<>>
    /\ resume_response = [article |-> <<>>, esArticle |-> <<>>]
    /\ rspc = "idle"

PipeIdle ==
    /\ request = [r \in Requests |-> NoRequest]
    /\ rpc = [r \in Requests |-> "absent"]
    /\ field_no = [r \in Requests |-> 0]
    /\ chunks = [r \in Requests |-> <<<<>>, <<>>, <<>>>>]
    /\ translated_chunks = [r \in Requests |-> <<<<>>, <<>>, <<>>>>]
    /\ chunk_no = [r \in Requests |-> 0]
    /\ translated_fields = [r \in Requests |-> <<>>]
    /\ calls = [r \in Requests |-> <<>>]
    /\ response = [r \in Requests |-> NoResponse]

-----------------------------------------------------------------------------
(* Python str and list primitives                                          *)

\* The characters str.strip() and the regex class \s treat as white space.
Whitespace == {" ", "\n", "\t"}

\* The characters the regex class \d matches.
Digits == {"0", "1", "2", "3", "4", "5", "6", "7", "8", "9"}

Min(a, b) == IF a < b THEN a ELSE b

\* s[:n] for n >= 0
Take(s, n) == SubSeq(s, 1, Min(n, Len(s)))

\* s[n:] for n >= 0
Drop(s, n) == SubSeq(s, n + 1, Len(s))

RECURSIVE LStrip(_)
LStrip(s) ==
    IF s # <<>> /\ Head(s) \in Whitespace THEN LStrip(Tail(s)) ELSE s

RECURSIVE RStrip(_)
RStrip(s) ==
    IF s # <<>> /\ s[Len(s)] \in Whitespace
    THEN RStrip(SubSeq(s, 1, Len(s) - 1))
    ELSE s

\* str.strip()
Strip(s) == RStrip(LStrip(s))

\* s.startswith(p)
StartsWith(s, p) == Len(p) <= Len(s) /\ SubSeq(s, 1, Len(p)) = p

\* s.endswith(p)
EndsWith(s, p) == Len(p) <= Len(s) /\ SubSeq(s, Len(s) - Len(p) + 1, Len(s)) = p

\* s.find(sep): the 0-based index of the first occurrence, -1 when there is none
RECURSIVE FindFrom(_, _, _)
FindFrom(s, sep, i) ==
    IF i + Len(sep) > Len(s) THEN -1
    ELSE IF SubSeq(s, i + 1, i + Len(sep)) = sep THEN i
    ELSE FindFrom(s, sep, i + 1)

Find(s, sep) == FindFrom(s, sep, 0)

\* s.split(sep) for a non-empty sep: always at least one part
RECURSIVE Split(_, _)
Split(s, sep) ==
    LET i == Find(s, sep)
    IN  IF i = -1 THEN <<s>>
        ELSE <<Take(s, i)>> \o Split(Drop(s, i + Len(sep)), sep)

\* s.count(c) for a one-character c
RECURSIVE Count(_, _)
Count(s, c) ==
    IF s = <<>> THEN 0
    ELSE (IF Head(s) = c THEN 1 ELSE 0) + Count(Tail(s), c)

\* s.rfind(c) for a one-character c: 0-based, -1 when there is none
RECURSIVE RFind(_, _)
RFind(s, c) ==
    IF s = <<>> THEN -1
    ELSE IF s[Len(s)] = c THEN Len(s) - 1
    ELSE RFind(SubSeq(s, 1, Len(s) - 1), c)

\* "".join(parts)
RECURSIVE Concat(_)
Concat(parts) ==
    IF parts = <<>> THEN <<>> ELSE Head(parts) \o Concat(Tail(parts))

\* sep.join(parts)
RECURSIVE Join(_, _)
Join(sep, parts) ==
    IF parts = <<>> THEN <<>>
    ELSE IF Len(parts) = 1 THEN Head(parts)
    ELSE Head(parts) \o sep \o Join(sep, Tail(parts))

\* The characters of s that are not white space, in order.
RECURSIVE NonWhitespace(_)
NonWhitespace(s) ==
    IF s = <<>> THEN <<>>
    ELSE (IF Head(s) \in Whitespace THEN <<>> ELSE <<Head(s)>>)
         \o NonWhitespace(Tail(s))

\* Whether the characters of a occur in b in the same order.
RECURSIVE IsSubsequence(_, _)
IsSubsequence(a, b) ==
    IF a = <<>> THEN TRUE
    ELSE IF b = <<>> THEN FALSE
    ELSE IF Head(a) = Head(b) THEN IsSubsequence(Tail(a), Tail(b))
    ELSE IsSubsequence(a, Tail(b))

\* All sequences over S of length at most n
RECURSIVE SeqsUpTo(_, _)
SeqsUpTo(S, n) ==
    IF n = 0 THEN {<<>>}
    ELSE LET shorter == SeqsUpTo(S, n - 1)
         IN  shorter \cup {Append(s, x) : s \in {t \in shorter : Len(t) = n - 1}, x \in S}

-----------------------------------------------------------------------------
(* OllamaService._parse_numbered_translation                               *)

\* The characters of the model responses that are enumerated.
ResponseChars == {"1", ".", ")", " ", "a", "\n"}

\* Bounds of the enumerated inputs.
MaxResponseLen == 4
MaxExpectedCount == 3

\* The ordinal markers of the pattern ^\d+[\.\)\-]
OrdinalMarks == {".", ")", "-"}

\* The number of leading digits of a line: what \d+ consumes.
RECURSIVE DigitPrefixLen(_)
DigitPrefixLen(line) ==
    IF line # <<>> /\ Head(line) \in Digits
    THEN 1 + DigitPrefixLen(Tail(line))
    ELSE 0

\* re.match(r'^\d+[\.\)\-]', line)
HasOrdinalMarker(line) ==
    LET n == DigitPrefixLen(line)
    IN  n >= 1 /\ Len(line) > n /\ line[n + 1] \in OrdinalMarks

\* What follows the marker of a line that has one.
AfterMarker(line) == Drop(line, DigitPrefixLen(line) + 1)

\* re.match(r'^\d+[\.\)\-]\s*(.+)', line): (.+) needs one character at least,
\* and no character of a line is a line break.
MatchNumbered(line) == HasOrdinalMarker(line) /\ AfterMarker(line) # <<>>

\* match.group(1).strip(): \s* is greedy, the group is what is left.
NumberedGroup(line) == Strip(LStrip(AfterMarker(line)))

\* segments[-1] += " " + line
AppendToLast(segments, line) ==
    [segments EXCEPT ![Len(segments)] = @ \o <<" ">> \o line]

\* One iteration of the loop over the lines.
ParseLine(segments, raw) ==
    LET line == Strip(raw)
    IN  IF MatchNumbered(line) THEN Append(segments, NumberedGroup(line))
        ELSE IF line # <<>> /\ ~HasOrdinalMarker(line)
             THEN (IF segments # <<>> THEN AppendToLast(segments, line) ELSE segments)
             ELSE segments

RECURSIVE ParseLines(_, _)
ParseLines(segments, lines) ==
    IF lines = <<>> THEN segments
    ELSE ParseLines(ParseLine(segments, Head(lines)), Tail(lines))

\* The segments recovered from a response, before padding and truncation.
RecoveredSegments(reply) == ParseLines(<<>>, Split(Strip(reply), <<"\n">>))

\* A plausible slip: the padding loop is left out.
PadSegments_NoPad(segments, count) == segments

\* while len(segments) < expected_count: segments.append("")
PadSegments(segments, count) ==
    IF Len(segments) < count
    THEN segments \o [i \in 1..(count - Len(segments)) |-> <<>>]
    ELSE segments

\* A plausible slip: the truncation keeps the last segments, not the first.
ParseNumberedTranslation_KeepLast(reply, count) ==
    LET padded == PadSegments(RecoveredSegments(reply), count)
    IN  Drop(padded, Len(padded) - count)

\* _parse_numbered_translation, for expected_count >= 0
ParseNumberedTranslation(reply, count) ==
    Take(PadSegments(RecoveredSegments(reply), count), count)

\* The responses made of whole lines that are enumerated as well.
ResponseLines ==
    {<<"1", ".", " ", "a">>, <<"1", ")", "a">>, <<"a">>, <<"1", ".">>, <<" ">>}
MaxResponseLines == 3
LineResponses ==
    {Join(<<"\n">>, ls) : ls \in SeqsUpTo(ResponseLines, MaxResponseLines)}

ParserInit ==
    /\ translation_response \in
           SeqsUpTo(ResponseChars, MaxResponseLen) \cup LineResponses
    /\ expected_count \in 0..MaxExpectedCount
    /\ parsed = <<>>
    /\ ppc = "call"

ParseCall ==
    /\ ppc = "call"
    /\ parsed' = ParseNumberedTranslation(translation_response, expected_count)
    /\ ppc' = "done"
    /\ UNCHANGED <<translation_response, expected_count>>
    /\ UNCHANGED notParserVars

-----------------------------------------------------------------------------
(* OllamaService.split_html_into_chunks                                    *)

HrMarker == <<"<", "h", "r">>
DivClose == <<"<", "/", "d", "i", "v", ">">>

\* Step 1: html.split("<hr"), "<hr" put back in front of every part but the
\* first, each part stripped.
RECURSIVE ReattachHr(_, _)
ReattachHr(parts, i) ==
    IF parts = <<>> THEN <<>>
    ELSE <<Strip(IF i > 0 THEN HrMarker \o Head(parts) ELSE Head(parts))>>
         \o ReattachHr(Tail(parts), i + 1)

HrParts(doc) == ReattachHr(Split(doc, HrMarker), 0)

\* A plausible slip: a blank sub-part is not skipped but keeps its "</div>".
DivStep_KeepBlank(acc, sub, limit) ==
    LET candidate == acc.buffer \o sub \o DivClose
    IN  IF Len(candidate) > limit
        THEN [out    |-> IF acc.buffer # <<>> THEN Append(acc.out, acc.buffer)
                         ELSE acc.out,
              buffer |-> sub \o DivClose]
        ELSE [out |-> acc.out, buffer |-> candidate]

\* Step 2, one sub-part of part.split("</div>"): acc is the pair of the chunks
\* emitted so far and the buffer.
DivStep(acc, sub, limit) ==
    IF Strip(sub) = <<>> THEN acc
    ELSE LET candidate == acc.buffer \o sub \o DivClose
         IN  IF Len(candidate) > limit
             THEN [out    |-> IF acc.buffer # <<>> THEN Append(acc.out, acc.buffer)
                              ELSE acc.out,
                   buffer |-> sub \o DivClose]
             ELSE [out |-> acc.out, buffer |-> candidate]

RECURSIVE DivFold(_, _, _)
DivFold(acc, subs, limit) ==
    IF subs = <<>> THEN acc
    ELSE DivFold(DivStep(acc, Head(subs), limit), Tail(subs), limit)

\* Step 2 for one oversized part: the chunks it adds to final_chunks.
SplitByDiv(part, limit) ==
    LET acc == DivFold([out |-> <<>>, buffer |-> <<>>], Split(part, DivClose), limit)
    IN  IF acc.buffer # <<>> THEN Append(acc.out, acc.buffer) ELSE acc.out

\* Steps 1 and 2 for one part.
PartChunks(part, limit) ==
    IF part = <<>> THEN <<>>
    ELSE IF Len(part) <= limit THEN <<part>>
    ELSE SplitByDiv(part, limit)

RECURSIVE PartsChunks(_, _)
PartsChunks(parts, limit) ==
    IF parts = <<>> THEN <<>>
    ELSE PartChunks(Head(parts), limit) \o PartsChunks(Tail(parts), limit)

\* final_chunks after steps 1 and 2.
FinalChunks(doc, limit) == PartsChunks(HrParts(doc), limit)

\* A plausible slip: the window is one character too long.
Window_OneTooLong(chunk, from, limit) ==
    SubSeq(chunk, from + 1, Min(from + limit + 1, Len(chunk)))

\* Step 3: the window chunk[start:start + max_chars].
Window(chunk, from, limit) == SubSeq(chunk, from + 1, Min(from + limit, Len(chunk)))

\* Step 3: the window has more "<" than ">".
MidTag(slice) == Count(slice, "<") > Count(slice, ">")

\* A plausible slip: the window is emitted whole although it ends inside a tag
\* and the next window starts after the last ">".
SliceEmit_Whole(slice) == <<slice>>

\* Step 3: what one iteration of the while loop appends to safe_final.
SliceEmit(slice) ==
    IF MidTag(slice)
    THEN (IF RFind(slice, ">") # -1 THEN <<Take(slice, RFind(slice, ">") + 1)>> ELSE <<>>)
    ELSE <<slice>>

\* Step 3: what one iteration of the while loop adds to start.
SliceAdvance(slice, limit) ==
    IF MidTag(slice) THEN RFind(slice, ">") + 1 ELSE limit

\* A plausible slip: step 3 is left out.
SafeChunk_NoSlicing(chunk, limit) == <<chunk>>

\* Step 3: the while loop from a window start, for a loop that ends.  A window
\* that ends inside a tag and holds no ">" leaves start where it was: the loop
\* never ends and the function does not return.
RECURSIVE SlicesFrom(_, _, _)
SlicesFrom(chunk, from, limit) ==
    IF from >= Len(chunk) THEN <<>>
    ELSE LET slice == Window(chunk, from, limit)
         IN  SliceEmit(slice) \o
             SlicesFrom(chunk, from + SliceAdvance(slice, limit), limit)

\* Whether the while loop from a window start never ends.
RECURSIVE SlicingHangs(_, _, _)
SlicingHangs(chunk, from, limit) ==
    IF from >= Len(chunk) THEN FALSE
    ELSE LET slice == Window(chunk, from, limit)
         IN  IF SliceAdvance(slice, limit) = 0 THEN TRUE
             ELSE SlicingHangs(chunk, from + SliceAdvance(slice, limit), limit)

\* Step 3 for one chunk of final_chunks.
SafeChunk(chunk, limit) ==
    IF Len(chunk) > limit THEN SlicesFrom(chunk, 0, limit) ELSE <<chunk>>

\* return [c.strip() for c in safe_final if c.strip()]
RECURSIVE StripNonEmpty(_)
StripNonEmpty(list) ==
    IF list = <<>> THEN <<>>
    ELSE (IF Strip(Head(list)) # <<>> THEN <<Strip(Head(list))>> ELSE <<>>)
         \o StripNonEmpty(Tail(list))

\* The pieces the enumerated documents are made of, and the bounds.
DocPieces ==
    { <<"<", "h", "r", ">">>,
      <<"<", "d", "i", "v", ">">>,
      DivClose,
      <<"a", "b">>,
      <<" ">>,
      <<"<", "i">>,
      <<">">> }

MaxDocPieces == 3
MaxMaxChars == 8

ChunkerDocs == {Concat(ps) : ps \in SeqsUpTo(DocPieces, MaxDocPieces)}

ChunkerInit ==
    /\ html \in ChunkerDocs
    /\ max_chars \in 1..MaxMaxChars
    /\ final_chunks = <<>>
    /\ safe_final = <<>>
    /\ chunk_idx = 0
    /\ start = 0
    /\ returned = <<>>
    /\ cpc = "split"

\* Steps 1 and 2: the loop over html.split("<hr").
SplitTiers ==
    /\ cpc = "split"
    /\ final_chunks' = FinalChunks(html, max_chars)
    /\ chunk_idx' = 1
    /\ cpc' = "safeguard"
    /\ UNCHANGED <<html, max_chars, safe_final, start, returned>>
    /\ UNCHANGED notChunkerVars

\* Step 3, a chunk within max_chars: safe_final.append(chunk).
KeepChunk ==
    /\ cpc = "safeguard"
    /\ chunk_idx <= Len(final_chunks)
    /\ Len(final_chunks[chunk_idx]) <= max_chars
    /\ safe_final' = safe_final \o SafeChunk(final_chunks[chunk_idx], max_chars)
    /\ chunk_idx' = chunk_idx + 1
    /\ UNCHANGED <<html, max_chars, final_chunks, start, returned, cpc>>
    /\ UNCHANGED notChunkerVars

\* Step 3, an oversized chunk: start = 0 and the while loop is entered.
EnterSlicing ==
    /\ cpc = "safeguard"
    /\ chunk_idx <= Len(final_chunks)
    /\ Len(final_chunks[chunk_idx]) > max_chars
    /\ start' = 0
    /\ cpc' = "slicing"
    /\ UNCHANGED <<html, max_chars, final_chunks, safe_final, chunk_idx, returned>>
    /\ UNCHANGED notChunkerVars

\* Step 3, one iteration of the while loop.
SliceWindow ==
    /\ cpc = "slicing"
    /\ start < Len(final_chunks[chunk_idx])
    /\ LET slice == Window(final_chunks[chunk_idx], start, max_chars)
       IN  /\ safe_final' = safe_final \o SliceEmit(slice)
           /\ start' = start + SliceAdvance(slice, max_chars)
    /\ UNCHANGED <<html, max_chars, final_chunks, chunk_idx, returned, cpc>>
    /\ UNCHANGED notChunkerVars

\* Step 3, the while loop ends: on to the next chunk.
LeaveSlicing ==
    /\ cpc = "slicing"
    /\ start >= Len(final_chunks[chunk_idx])
    /\ chunk_idx' = chunk_idx + 1
    /\ cpc' = "safeguard"
    /\ UNCHANGED <<html, max_chars, final_chunks, safe_final, start, returned>>
    /\ UNCHANGED notChunkerVars

\* The return statement.
ReturnChunks ==
    /\ cpc = "safeguard"
    /\ chunk_idx > Len(final_chunks)
    /\ returned' = StripNonEmpty(safe_final)
    /\ cpc' = "done"
    /\ UNCHANGED <<html, max_chars, final_chunks, safe_final, chunk_idx, start>>
    /\ UNCHANGED notChunkerVars

ChunkerNext ==
    \/ SplitTiers
    \/ KeepChunk
    \/ EnterSlicing
    \/ SliceWindow
    \/ LeaveSlicing
    \/ ReturnChunks

\* Only the chunker runs.
InitChunker == ChunkerInit /\ ParserIdle /\ StructIdle /\ PipeIdle /\ ResumeIdle /\ FlatIdle /\ SanitizeIdle

SpecChunker == InitChunker /\ [][ChunkerNext]_vars

\* Whether split_html_into_chunks returns at all.
SplitHangs(doc, limit) ==
    \E i \in 1..Len(FinalChunks(doc, limit)) :
        /\ Len(FinalChunks(doc, limit)[i]) > limit
        /\ SlicingHangs(FinalChunks(doc, limit)[i], 0, limit)

RECURSIVE SafeChunks(_, _)
SafeChunks(list, limit) ==
    IF list = <<>> THEN <<>>
    ELSE SafeChunk(Head(list), limit) \o SafeChunks(Tail(list), limit)

\* split_html_into_chunks(html, max_chars), when it returns.
SplitHtmlIntoChunks(doc, limit) ==
    StripNonEmpty(SafeChunks(FinalChunks(doc, limit), limit))


ParserNext == ParseCall

\* Only the parser runs.
InitParser == ParserInit /\ ChunkerIdle /\ StructIdle /\ PipeIdle /\ ResumeIdle /\ FlatIdle /\ SanitizeIdle

SpecParser == InitParser /\ [][ParserNext]_vars

-----------------------------------------------------------------------------
(* BeautifulSoup(html_content, 'html.parser'): the tree the extractor      *)
(* walks.  The documents that are enumerated hold text, start tags with    *)
(* quoted attribute values, end tags and nothing else (no comment, no      *)
(* entity, no '<' or '>' inside text or inside an attribute value); on     *)
(* these the parser does the following.  A text node is                    *)
(* [type |-> "text", text |-> s], a tag node is                            *)
(* [type |-> "tag", name |-> n, attrs |-> a, children |-> c], attrs being  *)
(* the dict of the attributes as a sequence of <<key, value>> in insertion *)
(* order.                                                                  *)

Letters ==
    {"a", "b", "c", "d", "e", "f", "g", "h", "i", "j", "k", "l", "m",
     "n", "o", "p", "q", "r", "s", "t", "u", "v", "w", "x", "y", "z"}

NameChars == Letters \cup Digits

Quotes == {"\"", "'"}

\* The elements the parser closes as soon as they are opened.
VoidElements ==
    { <<"b", "r">>, <<"h", "r">>, <<"i", "m", "g">>,
      <<"i", "n", "p", "u", "t">>, <<"m", "e", "t", "a">>,
      <<"l", "i", "n", "k">>, <<"w", "b", "r">> }

\* The 1-based position of the first c in s at or after i, 0 when there is none.
RECURSIVE IndexFrom(_, _, _)
IndexFrom(s, c, i) ==
    IF i > Len(s) THEN 0
    ELSE IF s[i] = c THEN i
    ELSE IndexFrom(s, c, i + 1)

\* The length of the longest prefix of s made of characters of S.
RECURSIVE PrefixLen(_, _)
PrefixLen(s, S) ==
    IF s # <<>> /\ Head(s) \in S THEN 1 + PrefixLen(Tail(s), S) ELSE 0

\* The length of the longest prefix of s made of characters not in S.
RECURSIVE PrefixLenNot(_, _)
PrefixLenNot(s, S) ==
    IF s # <<>> /\ Head(s) \notin S THEN 1 + PrefixLenNot(Tail(s), S) ELSE 0

\* d[key] = value on a dict: a key keeps its place, a new key goes last.
DictSet(d, key, value) ==
    IF \E i \in 1..Len(d) : d[i][1] = key
    THEN [i \in 1..Len(d) |-> IF d[i][1] = key THEN <<key, value>> ELSE d[i]]
    ELSE Append(d, <<key, value>>)

DictHas(d, key) == \E i \in 1..Len(d) : d[i][1] = key

\* d.get(key): the value, None (here <<>>, as falsy as None) when absent.
DictGet(d, key) ==
    IF DictHas(d, key)
    THEN d[CHOOSE i \in 1..Len(d) : d[i][1] = key][2]
    ELSE <<>>

DictKeys(d) == {d[i][1] : i \in 1..Len(d)}

\* The attributes of a start tag, from the text that follows the tag name,
\* added to the dict d from left to right.
RECURSIVE ParseAttrsInto(_, _)
ParseAttrsInto(d, text) ==
    LET rest == LStrip(text)
        klen == PrefixLenNot(rest, Whitespace \cup {"=", "/"})
        key == Take(rest, klen)
        after == Drop(rest, klen)
    IN  IF rest = <<>> THEN d
        ELSE IF klen = 0 THEN ParseAttrsInto(d, Tail(rest))
        ELSE IF after # <<>> /\ Head(after) = "="
             THEN LET v == Tail(after)
                  IN  IF v # <<>> /\ Head(v) \in Quotes
                      THEN LET close == IndexFrom(v, Head(v), 2)
                               stop == IF close = 0 THEN Len(v) + 1 ELSE close
                           IN  ParseAttrsInto(DictSet(d, key, SubSeq(v, 2, stop - 1)),
                                              Drop(v, Min(stop, Len(v))))
                      ELSE LET vlen == PrefixLenNot(v, Whitespace)
                           IN  ParseAttrsInto(DictSet(d, key, Take(v, vlen)),
                                              Drop(v, vlen))
             ELSE ParseAttrsInto(DictSet(d, key, <<>>), after)

ParseAttrs(text) == ParseAttrsInto(<<>>, text)

\* The tokens of a document from the 1-based position i: text, start tags and
\* end tags.
RECURSIVE TokensFrom(_, _)
TokensFrom(s, i) ==
    IF i > Len(s) THEN <<>>
    ELSE IF s[i] = "<" /\ IndexFrom(s, ">", i) # 0 /\ i < Len(s)
            /\ (s[i + 1] \in Letters \/ s[i + 1] = "/")
    THEN LET j == IndexFrom(s, ">", i)
             inner == SubSeq(s, i + 1, j - 1)
         IN  IF Head(inner) = "/"
             THEN <<[kind |-> "end", name |-> Strip(Tail(inner))]>>
                  \o TokensFrom(s, j + 1)
             ELSE LET nlen == PrefixLen(inner, NameChars)
                      body == RStrip(Drop(inner, nlen))
                      selfclosed == body # <<>> /\ body[Len(body)] = "/"
                  IN  <<[kind       |-> "start",
                         name       |-> Take(inner, nlen),
                         attrs      |-> ParseAttrs(body),
                         selfclosed |-> selfclosed]>>
                      \o TokensFrom(s, j + 1)
    ELSE LET next == IndexFrom(s, "<", i + 1)
             stop == IF next = 0 THEN Len(s) + 1 ELSE next
             rest == TokensFrom(s, stop)
             run == SubSeq(s, i, stop - 1)
         IN  IF rest # <<>> /\ Head(rest).kind = "text"
             THEN <<[kind |-> "text", text |-> run \o Head(rest).text]>> \o Tail(rest)
             ELSE <<[kind |-> "text", text |-> run]>> \o rest

\* The open elements are a stack of frames, the document itself at the bottom.
\* Closing the top frame makes it the last child of the frame below.
PopFrame(stack) ==
    LET top == stack[Len(stack)]
        below == stack[Len(stack) - 1]
        node == [type |-> "tag", name |-> top.name, attrs |-> top.attrs,
                 children |-> top.children]
    IN  Append(SubSeq(stack, 1, Len(stack) - 2),
               [below EXCEPT !.children = Append(@, node)])

RECURSIVE PopTo(_, _)
PopTo(stack, depth) ==
    IF Len(stack) <= depth THEN stack ELSE PopTo(PopFrame(stack), depth)

AddChild(stack, node) ==
    [stack EXCEPT ![Len(stack)].children = Append(@, node)]

\* One token: text goes to the open element, a start tag opens an element (a
\* void or self-closed one is closed at once), an end tag closes the innermost
\* open element of that name and all that are open inside it, and is ignored
\* when no such element is open.
TreeStep(stack, tok) ==
    IF tok.kind = "text"
    THEN AddChild(stack, [type |-> "text", text |-> tok.text])
    ELSE IF tok.kind = "start"
    THEN IF tok.name \in VoidElements \/ tok.selfclosed
         THEN AddChild(stack, [type |-> "tag", name |-> tok.name,
                               attrs |-> tok.attrs, children |-> <<>>])
         ELSE Append(stack, [name |-> tok.name, attrs |-> tok.attrs,
                             children |-> <<>>])
    ELSE LET open == {d \in 2..Len(stack) : stack[d].name = tok.name}
         IN  IF open = {} THEN stack
             ELSE PopTo(stack, (CHOOSE d \in open : \A e \in open : e <= d) - 1)

RECURSIVE TreeFold(_, _)
TreeFold(stack, toks) ==
    IF toks = <<>> THEN PopTo(stack, 1)
    ELSE TreeFold(TreeStep(stack, Head(toks)), Tail(toks))

\* soup.children: the top-level nodes of the parsed document.
Soup(doc) ==
    TreeFold(<<[name |-> <<>>, attrs |-> <<>>, children |-> <<>>]>>,
             TokensFrom(doc, 1))[1].children

-----------------------------------------------------------------------------
(* OllamaService.extract_text_with_structure                               *)

BodyName == <<"b", "o", "d", "y">>
ImgName == <<"i", "m", "g">>
AltKey == <<"a", "l", "t">>
TitleKey == <<"t", "i", "t", "l", "e">>

\* soup.body: the first body tag of the document in document order, as a
\* sequence of one node, empty when there is none.
RECURSIVE FirstBody(_)
FirstBody(nodes) ==
    IF nodes = <<>> THEN <<>>
    ELSE LET node == Head(nodes)
         IN  IF node.type = "tag" /\ node.name = BodyName THEN <<node>>
             ELSE IF node.type = "tag" /\ FirstBody(node.children) # <<>>
             THEN FirstBody(node.children)
             ELSE FirstBody(Tail(nodes))

\* The text branch of process_element: what it appends to text_segments and to
\* the parent's content.
ProcessText(element, segs) ==
    LET text == Strip(element.text)
    IN  IF text # <<>>
        THEN [segs  |-> Append(segs, text),
              items |-> <<[type |-> "text",
                           placeholder_index |-> Len(segs),
                           original_text |-> text]>>]
        ELSE [segs |-> segs, items |-> <<>>]

\* The alt of an img: tag_data and text_segments after lines 74-82.
WithAlt(element, acc) ==
    LET alt_text == Strip(DictGet(element.attrs, AltKey))
    IN  IF element.name = ImgName /\ DictGet(element.attrs, AltKey) # <<>>
           /\ alt_text # <<>>
        THEN [segs |-> Append(acc.segs, alt_text),
              tag  |-> acc.tag @@ [alt_placeholder_index |-> Len(acc.segs),
                                   original_alt |-> alt_text]]
        ELSE acc

\* The title of any element: tag_data and text_segments after lines 84-92.
WithTitle(element, acc) ==
    LET title_text == Strip(DictGet(element.attrs, TitleKey))
    IN  IF DictGet(element.attrs, TitleKey) # <<>> /\ title_text # <<>>
        THEN [segs |-> Append(acc.segs, title_text),
              tag  |-> acc.tag @@ [title_placeholder_index |-> Len(acc.segs),
                                   original_title |-> title_text]]
        ELSE acc

\* process_element on one node and on a list of children: segs is
\* text_segments, items is what was appended to the parent's content.
RECURSIVE ProcessElement(_, _), ProcessChildren(_, _)
ProcessElement(element, segs) ==
    IF element.type = "text" THEN ProcessText(element, segs)
    ELSE LET tag_data == [type |-> "tag",
                          tag_name |-> element.name,
                          attributes |-> element.attrs,
                          content |-> <<>>]
             named == WithTitle(element,
                          WithAlt(element, [segs |-> segs, tag |-> tag_data]))
             inner == ProcessChildren(element.children, named.segs)
         IN  [segs  |-> inner.segs,
              items |-> <<[named.tag EXCEPT !.content = inner.items]>>]

ProcessChildren(children, segs) ==
    IF children = <<>> THEN [segs |-> segs, items |-> <<>>]
    ELSE LET first == ProcessElement(Head(children), segs)
             rest == ProcessChildren(Tail(children), first.segs)
         IN  [segs |-> rest.segs, items |-> first.items \o rest.items]

\* The nodes the walk starts from: soup.body.children when the document has a
\* body, soup.children otherwise.
WalkRoots(soup) ==
    IF FirstBody(soup) # <<>> THEN FirstBody(soup)[1].children ELSE soup

\* extract_text_with_structure(html_content): the pair it returns.
ExtractTextWithStructure(doc) ==
    LET walked == ProcessChildren(WalkRoots(Soup(doc)), <<>>)
    IN  [segments      |-> walked.segs,
         structure_map |-> [type |-> "root",
                            content |-> walked.items,
                            original_html |-> doc]]

-----------------------------------------------------------------------------
(* extract_text_from_html and reconstruct_html: the operators of the flat   *)
(* strategy, which both structural functions fall back to                  *)

DigitChars == <<"0", "1", "2", "3", "4", "5", "6", "7", "8", "9">>

\* str(n) for a natural number n
RECURSIVE DecimalString(_)
DecimalString(n) ==
    IF n < 10 THEN <<DigitChars[n + 1]>>
    ELSE DecimalString(n \div 10) \o <<DigitChars[(n % 10) + 1]>>

\* f"{{TEXT_{n}__}}"
Placeholder(n) ==
    <<"{", "T", "E", "X", "T", "_">> \o DecimalString(n) \o <<"_", "_", "}">>

\* re.sub(r'>([^<]+)<', replace_text, s) from the 1-based position i on, with
\* segs the segments appended so far: a match starts at a '>' that is followed
\* by at least one character other than '<' and then by a '<'; the next match
\* is searched after that '<'.  replace_text keeps a blank match as it is.
RECURSIVE ReplaceText(_, _, _)
ReplaceText(s, i, segs) ==
    LET gt == IndexFrom(s, ">", i)
        lt == IndexFrom(s, "<", gt + 1)
    IN  IF i > Len(s) \/ gt = 0 \/ lt = 0
        THEN [segments |-> segs, template |-> SubSeq(s, i, Len(s))]
        ELSE IF lt = gt + 1
        THEN LET rest == ReplaceText(s, gt + 1, segs)
             IN  [segments |-> rest.segments,
                  template |-> SubSeq(s, i, gt) \o rest.template]
        ELSE LET text == Strip(SubSeq(s, gt + 1, lt - 1))
                 rest == ReplaceText(s, lt + 1,
                             IF text # <<>> THEN Append(segs, text) ELSE segs)
             IN  [segments |-> rest.segments,
                  template |->
                      SubSeq(s, i, gt - 1)
                      \o (IF text # <<>>
                          THEN <<">">> \o Placeholder(Len(segs)) \o <<"<">>
                          ELSE SubSeq(s, gt, lt))
                      \o rest.template]

\* "Handle text before first tag"
LeadingText(ex) ==
    LET first_tag == Find(ex.template, <<"<">>)
        start_text == Strip(Take(ex.template, first_tag))
    IN  IF StartsWith(ex.template, <<"<">>) \/ first_tag = -1 THEN ex
        ELSE IF start_text = <<>> THEN ex
        ELSE [segments |-> Append(ex.segments, start_text),
              template |-> Placeholder(Len(ex.segments)) \o Drop(ex.template, first_tag)]

\* "Handle text after last tag"
TrailingText(ex) ==
    LET last_tag == RFind(ex.template, ">")
        end_text == Strip(Drop(ex.template, last_tag + 1))
    IN  IF EndsWith(ex.template, <<">">>) \/ last_tag = -1 THEN ex
        ELSE IF end_text = <<>> THEN ex
        ELSE [segments |-> Append(ex.segments, end_text),
              template |-> Take(ex.template, last_tag + 1) \o Placeholder(Len(ex.segments))]

ExtractTextFromHtml(html_text) ==
    TrailingText(LeadingText(ReplaceText(html_text, 1, <<>>)))

\* s.replace(old, new) for a non-empty old
RECURSIVE ReplaceAll(_, _, _)
ReplaceAll(s, old, new) ==
    LET i == Find(s, old)
    IN  IF i = -1 THEN s
        ELSE Take(s, i) \o new \o ReplaceAll(Drop(s, i + Len(old)), old, new)

\* The loop of reconstruct_html from the i-th translated segment on.
RECURSIVE ReconstructFrom(_, _, _)
ReconstructFrom(translated, template, i) ==
    IF i > Len(translated) THEN template
    ELSE ReconstructFrom(translated,
             ReplaceAll(template, Placeholder(i - 1), translated[i]), i + 1)

ReconstructHtml(translated, template) == ReconstructFrom(translated, template, 1)

-----------------------------------------------------------------------------
(* OllamaService.reconstruct_html_from_structure                           *)

\* The tags render_content writes without content and with ' />'.
SelfClosingTags ==
    { <<"i", "m", "g">>, <<"b", "r">>, <<"h", "r">>,
      <<"i", "n", "p", "u", "t">>, <<"m", "e", "t", "a">>,
      <<"l", "i", "n", "k">> }

\* A plausible slip: a text item whose index is out of range renders as ''.
RenderText_EmptyWhenMissing(item, translated) ==
    IF item.placeholder_index < Len(translated)
    THEN translated[item.placeholder_index + 1]
    ELSE <<>>

\* The text of a text item: the translated segment when its index is in range,
\* the original text otherwise.
RenderText(item, translated) ==
    IF item.placeholder_index < Len(translated)
    THEN translated[item.placeholder_index + 1]
    ELSE item.original_text

\* A plausible slip: the translated alt and title are not written back.
RenderAttributes_Untranslated(item, translated) == item.attributes

\* The attributes of a tag item after lines 154-165.
RenderAttributes(item, translated) ==
    LET with_alt ==
            IF "alt_placeholder_index" \in DOMAIN item
               /\ item.alt_placeholder_index < Len(translated)
            THEN DictSet(item.attributes, AltKey,
                         translated[item.alt_placeholder_index + 1])
            ELSE item.attributes
    IN  IF "title_placeholder_index" \in DOMAIN item
           /\ item.title_placeholder_index < Len(translated)
        THEN DictSet(with_alt, TitleKey,
                     translated[item.title_placeholder_index + 1])
        ELSE with_alt

\* attr_str: ' key="value"' for every attribute.
AttrString(attributes) ==
    IF attributes = <<>> THEN <<>>
    ELSE <<" ">> \o
         Join(<<" ">>, [i \in 1..Len(attributes) |->
                            attributes[i][1] \o <<"=", "\"">> \o attributes[i][2]
                            \o <<"\"">>])

\* render_content(content_list)
RECURSIVE RenderContent(_, _)
RenderContent(content_list, translated) ==
    IF content_list = <<>> THEN <<>>
    ELSE LET item == Head(content_list)
             part ==
                 IF item.type = "text" THEN RenderText(item, translated)
                 ELSE LET attr_str == AttrString(RenderAttributes(item, translated))
                      IN  IF item.tag_name \in SelfClosingTags
                          THEN <<"<">> \o item.tag_name \o attr_str \o <<" ", "/", ">">>
                          ELSE <<"<">> \o item.tag_name \o attr_str \o <<">">>
                               \o RenderContent(item.content, translated)
                               \o <<"<", "/">> \o item.tag_name \o <<">">>
         IN  part \o RenderContent(Tail(content_list), translated)

\* A plausible slip: a fallback map gives back the original HTML.
ReconstructHtmlFromStructure_FallbackOriginal(translated, map) ==
    IF map.type = "fallback" THEN map.original_html
    ELSE RenderContent(map.content, translated)

\* reconstruct_html_from_structure(translated_segments, structure_map)
ReconstructHtmlFromStructure(translated, map) ==
    IF map.type = "fallback" THEN ReconstructHtml(translated, map.template)
    ELSE RenderContent(map.content, translated)

-----------------------------------------------------------------------------
(* One chunk through extract_text_with_structure, a list of translated     *)
(* segments, and reconstruct_html_from_structure.                          *)

ExampleChunk ==
    <<"<","d","i","v",">","H","e","l","l","o","<","/","d","i","v",">",
      "<","i","m","g"," ","s","r","c","=","'","a",".","j","p","g","'"," ",
      "a","l","t","=","'","S","k","y","'",">",
      "<","s","p","a","n",">","W","o","r","l","d","<","/","s","p","a","n",">">>

StructPieces ==
    { <<"<","d","i","v",">">>,
      <<"<","/","d","i","v",">">>,
      <<"<","b","o","d","y",">">>,
      <<"<","/","b","o","d","y",">">>,
      <<"<","i","m","g"," ","a","l","t","=","'","S","'"," ",
        "t","i","t","l","e","=","'","U","'"," ","i","d","=","'","i","'",">">>,
      <<"<","a"," ","t","i","t","l","e","=","'","T","'",">">>,
      <<"<","/","a",">">>,
      <<" ","H","i">>,
      <<"<","b","r",">">> }

MaxStructPieces == 3

StructChunks ==
    {ExampleChunk} \cup {Concat(ps) : ps \in SeqsUpTo(StructPieces, MaxStructPieces)}

\* The mock model: Hello -> Hola, Sky -> Cielo, World -> Mundo, and a word
\* that names the position for every other segment.
MockWord(segment, i) ==
    IF segment = <<"H","e","l","l","o">> THEN <<"H","o","l","a">>
    ELSE IF segment = <<"S","k","y">> THEN <<"C","i","e","l","o">>
    ELSE IF segment = <<"W","o","r","l","d">> THEN <<"M","u","n","d","o">>
    ELSE <<"T", CHOOSE d \in Digits : d = ToString(i)>>

MockTranslation(segments) == [i \in 1..Len(segments) |-> MockWord(segments[i], i)]

\* The lists handed to the reconstructor: the segments echoed, the mock
\* translation, every prefix of it, and it with one segment too many.
TranslationLists(segments) ==
    {segments}
    \cup {Take(MockTranslation(segments), k) : k \in 0..Len(segments)}
    \cup {Append(MockTranslation(segments), <<"X">>)}

StructInit ==
    /\ html_content \in StructChunks
    /\ text_segments = <<>>
    /\ structure_map = [type |-> "none"]
    /\ translated_segments = <<>>
    /\ result = <<>>
    /\ spc = "extract"

\* text_segments, structure_map = extract_text_with_structure(html_content)
ExtractStructure ==
    /\ spc = "extract"
    /\ text_segments' = ExtractTextWithStructure(html_content).segments
    /\ structure_map' = ExtractTextWithStructure(html_content).structure_map
    /\ spc' = "translate"
    /\ UNCHANGED <<html_content, translated_segments, result>>
    /\ UNCHANGED notStructVars

\* The except clause of extract_text_with_structure: the structural parse has
\* raised (BeautifulSoup rejects the markup, the recursion of process_element
\* is too deep, ...) and the flat strategy gives the result.  Which chunks
\* make the parse raise is not modelled: any chunk may take this branch.
ExtractStructureRaises ==
    /\ spc = "extract"
    /\ text_segments' = ExtractTextFromHtml(html_content).segments
    /\ structure_map' = [type |-> "fallback",
                         template |-> ExtractTextFromHtml(html_content).template,
                         original_html |-> html_content]
    /\ spc' = "translate"
    /\ UNCHANGED <<html_content, translated_segments, result>>
    /\ UNCHANGED notStructVars

\* The caller supplies the translated segments.
SupplyTranslation ==
    /\ spc = "translate"
    /\ translated_segments' \in TranslationLists(text_segments)
    /\ spc' = "reconstruct"
    /\ UNCHANGED <<html_content, text_segments, structure_map, result>>
    /\ UNCHANGED notStructVars

\* result = reconstruct_html_from_structure(translated_segments, structure_map)
ReconstructStructure ==
    /\ spc = "reconstruct"
    /\ result' = ReconstructHtmlFromStructure(translated_segments, structure_map)
    /\ spc' = "done"
    /\ UNCHANGED <<html_content, text_segments, structure_map, translated_segments>>
    /\ UNCHANGED notStructVars

StructNext ==
    \/ ExtractStructure
    \/ ExtractStructureRaises
    \/ SupplyTranslation
    \/ ReconstructStructure

\* Only the structural extractor and reconstructor run.
InitStruct == StructInit /\ ParserIdle /\ ChunkerIdle /\ PipeIdle /\ ResumeIdle /\ FlatIdle /\ SanitizeIdle

SpecStruct == InitStruct /\ [][StructNext]_vars

-----------------------------------------------------------------------------
(* sanitize_text and sanitize_html                                         *)

UpperCase ==
    <<"A", "B", "C", "D", "E", "F", "G", "H", "I", "J", "K", "L", "M",
      "N", "O", "P", "Q", "R", "S", "T", "U", "V", "W", "X", "Y", "Z">>
LowerCase ==
    <<"a", "b", "c", "d", "e", "f", "g", "h", "i", "j", "k", "l", "m",
      "n", "o", "p", "q", "r", "s", "t", "u", "v", "w", "x", "y", "z">>

\* The lower case of the characters that have one, for the patterns compiled
\* with re.IGNORECASE.
LowerOf ==
    [c \in {UpperCase[k] : k \in 1..Len(UpperCase)} \cup {"Í", "Ó"} |->
        IF c = "Í" THEN "í"
        ELSE IF c = "Ó" THEN "ó"
        ELSE LowerCase[CHOOSE k \in 1..Len(UpperCase) : UpperCase[k] = c]]

LowerChar(c) == IF c \in DOMAIN LowerOf THEN LowerOf[c] ELSE c

Lower(s) == [k \in 1..Len(s) |-> LowerChar(s[k])]

\* The characters the regex class \w matches.
WordChars ==
    Letters \cup {UpperCase[k] : k \in 1..Len(UpperCase)} \cup Digits
        \cup {"_", "í", "ó", "Í", "Ó"}

\* Whether the literal p, compared without case, is at the 1-based position i.
LiteralAt(s, p, i) ==
    /\ i >= 1
    /\ i + Len(p) - 1 <= Len(s)
    /\ \A k \in 1..Len(p) : LowerChar(s[i + k - 1]) = LowerChar(p[k])

\* The first position at or after i where the literal p is, 0 when none.
RECURSIVE LiteralFrom(_, _, _)
LiteralFrom(s, p, i) ==
    IF i + Len(p) - 1 > Len(s) THEN 0
    ELSE IF LiteralAt(s, p, i) THEN i
    ELSE LiteralFrom(s, p, i + 1)

\* The first position at or after i that holds no white space.
RECURSIVE SkipWhitespace(_, _)
SkipWhitespace(s, i) ==
    IF i <= Len(s) /\ s[i] \in Whitespace THEN SkipWhitespace(s, i + 1) ELSE i

\* The first position at or after i that holds no character of S.
RECURSIVE SkipChars(_, _, _)
SkipChars(s, S, i) ==
    IF i <= Len(s) /\ s[i] \in S THEN SkipChars(s, S, i + 1) ELSE i

\* The first position at or after i that holds a character of S, Len(s) + 1
\* when there is none.
RECURSIVE SkipUntil(_, _, _)
SkipUntil(s, S, i) ==
    IF i <= Len(s) /\ s[i] \notin S THEN SkipUntil(s, S, i + 1) ELSE i

\* The matches of re.sub(pattern, '', s) are taken from left to right and do
\* not overlap; ends[i] is the position after the match that starts at i, 0
\* when the pattern does not match there.
RECURSIVE RemoveMatches(_, _, _)
RemoveMatches(s, i, ends) ==
    IF i > Len(s) THEN <<>>
    ELSE IF ends[i] > i
    THEN RemoveMatches(s, ends[i], ends)
    ELSE <<s[i]>> \o RemoveMatches(s, i + 1, ends)

\* re.sub(pattern, '', s), the pattern given by the end of its match at i
ReSubEmpty(s, EndOf(_, _)) ==
    RemoveMatches(s, 1, [i \in 1..Len(s) |-> EndOf(s, i)])

\* re.sub(r'\s+', ' ', text)
RECURSIVE CollapseWhitespace(_)
CollapseWhitespace(s) ==
    IF s = <<>> THEN <<>>
    ELSE IF Head(s) \in Whitespace
    THEN <<" ">> \o CollapseWhitespace(LStrip(s))
    ELSE <<Head(s)>> \o CollapseWhitespace(Tail(s))

ScriptOpen == <<"<", "s", "c", "r", "i", "p", "t">>
ScriptClose == <<"<", "/", "s", "c", "r", "i", "p", "t", ">">>
ScriptWord == <<"s", "c", "r", "i", "p", "t">>

\* r'<script.*?</script>' with IGNORECASE and DOTALL
EndOfScriptText(s, i) ==
    IF LiteralAt(s, ScriptOpen, i)
       /\ LiteralFrom(s, ScriptClose, i + Len(ScriptOpen)) # 0
    THEN LiteralFrom(s, ScriptClose, i + Len(ScriptOpen)) + Len(ScriptClose)
    ELSE 0

\* r'<.*?>': '.' matches no line break
EndOfTag(s, i) ==
    LET gt == IndexFrom(s, ">", i + 1)
        nl == IndexFrom(s, "\n", i + 1)
    IN  IF s[i] = "<" /\ gt # 0 /\ (nl = 0 \/ gt < nl) THEN gt + 1 ELSE 0

\* sanitize_text(text); the last substitution, of three or more line breaks,
\* finds none: the first has turned every line break into a space.
SanitizeText(text) ==
    IF text = <<>> THEN <<>>
    ELSE ReSubEmpty(ReSubEmpty(Strip(CollapseWhitespace(text)), EndOfScriptText),
                    EndOfTag)

\* The position after r'<\s*/\s*script\s*>' when it is at i, 0 otherwise.
EndOfScriptEnd(s, i) ==
    LET a == SkipWhitespace(s, i + 1)
        b == SkipWhitespace(s, a + 1)
        c == SkipWhitespace(s, b + Len(ScriptWord))
    IN  IF i <= Len(s) /\ s[i] = "<"
           /\ a <= Len(s) /\ s[a] = "/"
           /\ LiteralAt(s, ScriptWord, b)
           /\ c <= Len(s) /\ s[c] = ">"
        THEN c + 1
        ELSE 0

\* The position after the first r'<\s*/\s*script\s*>' at or after i, 0 when none.
RECURSIVE ScriptEndFrom(_, _)
ScriptEndFrom(s, i) ==
    IF i > Len(s) THEN 0
    ELSE IF EndOfScriptEnd(s, i) # 0 THEN EndOfScriptEnd(s, i)
    ELSE ScriptEndFrom(s, i + 1)

\* r'<\s*script[^>]*>.*?<\s*/\s*script\s*>' with DOTALL and IGNORECASE
EndOfScriptElement(s, i) ==
    LET a == SkipWhitespace(s, i + 1)
        gt == IndexFrom(s, ">", a + Len(ScriptWord))
    IN  IF s[i] = "<" /\ LiteralAt(s, ScriptWord, a) /\ gt # 0
        THEN ScriptEndFrom(s, gt + 1)
        ELSE 0

\* The position after r'on\w+\s*=\s*' when it is at i, 0 otherwise.  \w+ gives
\* back no character: '=' and white space are not word characters.
EndOfHandlerName(s, i) ==
    LET w == SkipChars(s, WordChars, i + 2)
        eq == SkipWhitespace(s, w)
    IN  IF LiteralAt(s, <<"o", "n">>, i) /\ w > i + 2 /\ eq <= Len(s) /\ s[eq] = "="
        THEN SkipWhitespace(s, eq + 1)
        ELSE 0

\* r'on\w+\s*=\s*"[^"]*"' (quote the double quote) and the same with the
\* single quote
EndOfQuotedHandler(s, i, quote) ==
    LET v == EndOfHandlerName(s, i)
    IN  IF v # 0 /\ v <= Len(s) /\ s[v] = quote /\ IndexFrom(s, quote, v + 1) # 0
        THEN IndexFrom(s, quote, v + 1) + 1
        ELSE 0

EndOfDoubleQuotedHandler(s, i) == EndOfQuotedHandler(s, i, "\"")
EndOfSingleQuotedHandler(s, i) == EndOfQuotedHandler(s, i, "'")

\* r'on\w+\s*=\s*[^ >]+': the value starts at the last position, among the
\* white space after '=' and the position after it, that holds neither a
\* space nor '>', and runs up to the next space or '>'.
EndOfBareHandler(s, i) ==
    LET w == SkipChars(s, WordChars, i + 2)
        eq == SkipWhitespace(s, w)
        v == EndOfHandlerName(s, i)
        starts == {k \in (eq + 1)..v : k <= Len(s) /\ s[k] \notin {" ", ">"}}
    IN  IF v = 0 \/ starts = {} THEN 0
        ELSE SkipUntil(s, {" ", ">"}, CHOOSE k \in starts : \A j \in starts : j <= k)

JavascriptWord == <<"j", "a", "v", "a", "s", "c", "r", "i", "p", "t", ":">>

\* r'(href|src)\s*=\s*"javascript:[^"]*"' and the same with the single quote
EndOfJavascriptUrl(s, i, quote) ==
    LET n == IF LiteralAt(s, <<"h", "r", "e", "f">>, i) THEN 4
             ELSE IF LiteralAt(s, <<"s", "r", "c">>, i) THEN 3
             ELSE 0
        eq == SkipWhitespace(s, i + n)
        v == SkipWhitespace(s, eq + 1)
    IN  IF n # 0 /\ eq <= Len(s) /\ s[eq] = "=" /\ v <= Len(s) /\ s[v] = quote
           /\ LiteralAt(s, JavascriptWord, v + 1)
           /\ IndexFrom(s, quote, v + 1 + Len(JavascriptWord)) # 0
        THEN IndexFrom(s, quote, v + 1 + Len(JavascriptWord)) + 1
        ELSE 0

EndOfDoubleQuotedJavascript(s, i) == EndOfJavascriptUrl(s, i, "\"")
EndOfSingleQuotedJavascript(s, i) == EndOfJavascriptUrl(s, i, "'")

\* sanitize_html(html)
SanitizeHtml(doc) ==
    ReSubEmpty(
      ReSubEmpty(
        ReSubEmpty(
          ReSubEmpty(
            ReSubEmpty(
              ReSubEmpty(doc, EndOfScriptElement),
              EndOfDoubleQuotedHandler),
            EndOfSingleQuotedHandler),
          EndOfBareHandler),
        EndOfDoubleQuotedJavascript),
      EndOfSingleQuotedJavascript)

-----------------------------------------------------------------------------
(* OllamaService.generate_translation, OllamaService.translate_html_content *)
(* and TranslationService.translate.  A prompt is the template it is made   *)
(* from and the values put into the template.                               *)

\* max_chars=5000 of the call of split_html_into_chunks
MaxChunkChars == 5000

\* The length below which a content or a response is not worth translating.
MinViableLen == 5

\* The value of the environment variable OLLAMA_DEFAULT_MODEL.
OLLAMA_DEFAULT_MODEL == "OLLAMA_DEFAULT_MODEL"

FieldNames == <<"title", "body", "section">>

\* c in s
Contains(s, c) == IndexFrom(s, c, 1) # 0

\* has_html
HasHtml_AnyMarker(req) ==
    \E f \in 1..Len(FieldNames) :
        Contains(req[FieldNames[f]], "<") \/ Contains(req[FieldNames[f]], ">")
HasHtml(req) ==
    \E f \in 1..Len(FieldNames) :
        Contains(req[FieldNames[f]], "<") /\ Contains(req[FieldNames[f]], ">")

\* The prompt translate_html_content builds for one chunk.
ChunkPrompt_Delimiter(target_language, chunk) ==
    [template |-> "segments", target_language |-> target_language,
     parts |-> <<chunk>>]
ChunkPrompt(target_language, chunk) ==
    [template |-> "structured", target_language |-> target_language,
     parts |-> <<chunk>>]

\* create_prompt_translation(title, body, section, target_language)
CreatePromptTranslation(title, body, section, target_language) ==
    [template |-> "combined", target_language |-> target_language,
     parts |-> <<title, body, section>>]

\* The JSON body generate_translation(prompt, model) posts.
Payload(prompt, model) ==
    [model |-> OLLAMA_DEFAULT_MODEL, prompt |-> prompt, stream |-> FALSE,
     temperature |-> "0.3"]

\* What a call of generate_translation has got: nothing yet, an exception
\* (either except clause raises Exception), or the "response" of the JSON body.
Pending == [kind |-> "pending", text |-> <<>>]
Raised == [kind |-> "raised", text |-> <<>>]
Returned(text) == [kind |-> "returned", text |-> text]

\* data.get("response", "").strip()
GenerateTranslation(text) == Strip(text)

\* The truth value of a Python tuple or list.
Truthy(tuple) == Len(tuple) > 0

\* text_segments = self.extract_text_with_structure(chunk): the returned pair
ChunkTextSegments(chunk) ==
    <<ExtractTextWithStructure(chunk).segments,
      ExtractTextWithStructure(chunk).structure_map>>

\* The except clause of the loop over chunks: what is appended for the chunk.
ChunkErrorOutput_Dropped(chunk) == <<>>
ChunkErrorOutput(chunk) == chunk

\* A plausible slip: only an empty response is taken as a failed translation.
ChunkOutput_KeepShort(chunk, translated_response) ==
    IF translated_response = <<>> THEN chunk ELSE Strip(translated_response)

\* What is appended for a chunk whose call has returned translated_response.
ChunkOutput(chunk, translated_response) ==
    IF translated_response = <<>> \/ Len(Strip(translated_response)) < MinViableLen
    THEN chunk
    ELSE Strip(translated_response)

\* Whether translate_html_content returns content as it is.
TooShort(content) == content = <<>> \/ Len(Strip(content)) < MinViableLen

TituloLabels ==
    {<<"T", "í", "t", "u", "l", "o", ":">>, <<"T", "i", "t", "u", "l", "o", ":">>}
CuerpoLabels == {<<"C", "u", "e", "r", "p", "o", ":">>}
SeccionLabels ==
    {<<"S", "e", "c", "c", "i", "ó", "n", ":">>, <<"S", "e", "c", "c", "i", "o", "n", ":">>}

LabelPositions(s, labels) ==
    {i \in 1..Len(s) : \E l \in labels : LiteralAt(s, l, i)}

\* m = re.search(label + r'([^\n]*)', s, re.IGNORECASE);
\* m.group(1).strip() if m else ''
LabelledField(s, labels) ==
    IF LabelPositions(s, labels) = {} THEN <<>>
    ELSE LET i == CHOOSE k \in LabelPositions(s, labels) :
                      \A j \in LabelPositions(s, labels) : k <= j
             from == i + Len(CHOOSE l \in labels : LiteralAt(s, l, i))
             nl == IndexFrom(s, "\n", from)
         IN  Strip(SubSeq(s, from, IF nl = 0 THEN Len(s) ELSE nl - 1))

\* The translated_text of the plain-text path for the response raw_translation.
PlainTranslatedText(raw_translation) ==
    LET sanitized == SanitizeText(raw_translation)
    IN  [title   |-> SanitizeText(LabelledField(sanitized, TituloLabels)),
         body    |-> SanitizeText(LabelledField(sanitized, CuerpoLabels)),
         section |-> SanitizeText(LabelledField(sanitized, SeccionLabels))]

\* The translated_text of the HTML path for the three returned values.
HtmlTranslatedText(values) ==
    [title   |-> SanitizeText(values[1]),
     body    |-> SanitizeHtml(values[2]),
     section |-> SanitizeText(values[3])]

\* The requests that are enumerated: a title without markup or with it, a body
\* made of at most MaxBodyPieces pieces, an empty or a plain section.
Titles == {<<"a", ">", "b">>,
           <<"<", "b", ">", "N", "e", "w", "s", "<", "/", "b", ">">>}
BodyPieces ==
    {<<"<", "p", ">", "H", "o", "l", "a", "<", "/", "p", ">", "<", "h", "r", ">">>,
     <<"<", "h", "r", ">", "<", "b", "r", ">">>,
     <<"H", "i">>}
MaxBodyPieces == 2
Bodies == {Concat(ps) : ps \in SeqsUpTo(BodyPieces, MaxBodyPieces)}
Sections == {<<>>, <<"W", "o", "r", "l", "d">>}
TargetLanguages == {<<"S", "p", "a", "n", "i", "s", "h">>}
Models == {"llama3.2"}

TranslationRequests ==
    [title : Titles, body : Bodies, section : Sections,
     target_language : TargetLanguages, model : Models]

\* What the model may answer to a prompt: nothing, a text too short to be a
\* translation, or a translation of the text it was given, with white space
\* around it.
ModelTranslation(text) == <<"E", "S", ":">> \o text
ChunkResponses(prompt) ==
    {<<>>, <<"S", "í", "\n">>, <<" ">> \o ModelTranslation(prompt.parts[1]) \o <<"\n">>}
CombinedResponses(prompt) ==
    {<<>>,
     <<"T", "í", "t", "u", "l", "o", ":", " ">> \o ModelTranslation(prompt.parts[1])
       \o <<"\n", "C", "u", "e", "r", "p", "o", ":", " ">>
       \o ModelTranslation(prompt.parts[2])
       \o <<"\n", "S", "e", "c", "c", "i", "ó", "n", ":", " ">>
       \o ModelTranslation(prompt.parts[3]) \o <<"\n">>}

\* The TranslationResponse the except clause of translate returns.
FailureResponse_Partial(req) ==
    [translated_text |-> [title |-> req.title, body |-> <<>>, section |-> <<>>],
     success |-> FALSE,
     model_used |-> req.model]
FailureResponse(req) ==
    [translated_text |-> [title |-> <<>>, body |-> <<>>, section |-> <<>>],
     success |-> FALSE,
     model_used |-> req.model]

\* The call of generate_translation a coroutine is waiting for, and the call
\* with its reply.
NewCall(r, prompt) ==
    [field |-> field_no[r], chunk |-> chunk_no[r],
     payload |-> Payload(prompt, request[r].model), reply |-> Pending]
Answered(r, reply) == [calls EXCEPT ![r][Len(calls[r])].reply = reply]

\* A plausible slip: the content is kept on the shared service object, where
\* the first request's value is the one that is read.
Content_Shared(r) == request["r1"][FieldNames[field_no[r]]]

\* The content and the chunk the request is at.
Content(r) == request[r][FieldNames[field_no[r]]]
Chunk(r) == chunks[r][field_no[r]][chunk_no[r]]

\* A plausible slip: a path of the loop that goes on without appending.
AppendChunk_Skip(r, x) ==
    /\ chunk_no' = [chunk_no EXCEPT ![r] = @ + 1]
    /\ rpc' = [rpc EXCEPT ![r] = "loop"]
    /\ UNCHANGED translated_chunks

\* translated_chunks.append(x); the loop goes to the next chunk
AppendChunk(r, x) ==
    /\ translated_chunks' =
           [translated_chunks EXCEPT ![r][field_no[r]] = Append(@, x)]
    /\ chunk_no' = [chunk_no EXCEPT ![r] = @ + 1]
    /\ rpc' = [rpc EXCEPT ![r] = "loop"]

\* One request r1 has arrived.
PipeInit ==
    /\ request \in {[r \in Requests |-> IF r = "r1" THEN q ELSE NoRequest] :
                       q \in TranslationRequests}
    /\ rpc = [r \in Requests |-> IF r = "r1" THEN "start" ELSE "absent"]
    /\ field_no = [r \in Requests |-> 0]
    /\ chunks = [r \in Requests |-> <<<<>>, <<>>, <<>>>>]
    /\ translated_chunks = [r \in Requests |-> <<<<>>, <<>>, <<>>>>]
    /\ chunk_no = [r \in Requests |-> 0]
    /\ translated_fields = [r \in Requests |-> <<>>]
    /\ calls = [r \in Requests |-> <<>>]
    /\ response = [r \in Requests |-> NoResponse]

\* translate: has_html holds, the title goes to translate_html_content.
TranslateHtml(r) ==
    /\ rpc[r] = "start"
    /\ HasHtml(request[r])
    /\ field_no' = [field_no EXCEPT ![r] = 1]
    /\ rpc' = [rpc EXCEPT ![r] = "enter"]
    /\ UNCHANGED <<request, chunks, translated_chunks, chunk_no, translated_fields,
                   calls, response>>
    /\ UNCHANGED notPipeVars

\* translate: has_html does not hold; the fields are sanitized, the combined
\* prompt is built and generate_translation is awaited.
TranslatePlain(r) ==
    /\ rpc[r] = "start"
    /\ ~HasHtml(request[r])
    /\ calls' = [calls EXCEPT ![r] = Append(@,
           NewCall(r, CreatePromptTranslation(
                          SanitizeText(request[r].title),
                          SanitizeText(request[r].body),
                          SanitizeText(request[r].section),
                          SanitizeText(request[r].target_language))))]
    /\ rpc' = [rpc EXCEPT ![r] = "plain_await"]
    /\ UNCHANGED <<request, field_no, chunks, translated_chunks, chunk_no,
                   translated_fields, response>>
    /\ UNCHANGED notPipeVars

\* translate_html_content: the content is empty or short and is returned.
ReturnContent(r) ==
    /\ rpc[r] = "enter"
    /\ TooShort(Content(r))
    /\ translated_fields' = [translated_fields EXCEPT ![r] = Append(@, Content(r))]
    /\ rpc' = [rpc EXCEPT ![r] = "returned"]
    /\ UNCHANGED <<request, field_no, chunks, translated_chunks, chunk_no, calls,
                   response>>
    /\ UNCHANGED notPipeVars

\* translate_html_content: the content is split into chunks.
SplitContent(r) ==
    /\ rpc[r] = "enter"
    /\ ~TooShort(Content(r))
    /\ chunks' = [chunks EXCEPT ![r][field_no[r]] =
                      SplitHtmlIntoChunks(Content(r), MaxChunkChars)]
    /\ translated_chunks' = [translated_chunks EXCEPT ![r][field_no[r]] = <<>>]
    /\ chunk_no' = [chunk_no EXCEPT ![r] = 1]
    /\ rpc' = [rpc EXCEPT ![r] = "loop"]
    /\ UNCHANGED <<request, field_no, translated_fields, calls, response>>
    /\ UNCHANGED notPipeVars

\* The loop body up to the await: the structure is extracted, and unless what
\* was extracted is falsy the prompt is built and generate_translation awaited.
ProcessChunk(r) ==
    /\ rpc[r] = "loop"
    /\ chunk_no[r] <= Len(chunks[r][field_no[r]])
    /\ IF ~Truthy(ChunkTextSegments(Chunk(r)))
       THEN /\ AppendChunk(r, Chunk(r))
            /\ UNCHANGED calls
       ELSE /\ calls' = [calls EXCEPT ![r] = Append(@,
                   NewCall(r, ChunkPrompt(request[r].target_language, Chunk(r))))]
            /\ rpc' = [rpc EXCEPT ![r] = "await"]
            /\ UNCHANGED <<translated_chunks, chunk_no>>
    /\ UNCHANGED <<request, field_no, chunks, translated_fields, response>>
    /\ UNCHANGED notPipeVars

\* A plausible slip: the call that raised is made once more for the chunk.
ChunkCallRaises_Retry(r) ==
    /\ rpc[r] = "await"
    /\ IF Len(calls[r]) > 1 /\ calls[r][Len(calls[r]) - 1].chunk = chunk_no[r]
          /\ calls[r][Len(calls[r]) - 1].field = field_no[r]
       THEN /\ calls' = Answered(r, Raised)
            /\ AppendChunk(r, ChunkErrorOutput(Chunk(r)))
       ELSE /\ calls' = [calls EXCEPT ![r] = Append(Answered(r, Raised)[r],
                   NewCall(r, ChunkPrompt(request[r].target_language, Chunk(r))))]
            /\ UNCHANGED <<translated_chunks, chunk_no, rpc>>
    /\ UNCHANGED <<request, field_no, chunks, translated_fields, response>>
    /\ UNCHANGED notPipeVars

\* generate_translation raises; the except clause of the loop keeps the chunk.
ChunkCallRaises(r) ==
    /\ rpc[r] = "await"
    /\ calls' = Answered(r, Raised)
    /\ AppendChunk(r, ChunkErrorOutput(Chunk(r)))
    /\ UNCHANGED <<request, field_no, chunks, translated_fields, response>>
    /\ UNCHANGED notPipeVars

\* generate_translation returns; the response is kept unless it is too short.
ChunkCallReturns(r) ==
    /\ rpc[r] = "await"
    /\ \E text \in ChunkResponses(calls[r][Len(calls[r])].payload.prompt) :
           /\ calls' = Answered(r, Returned(text))
           /\ AppendChunk(r, ChunkOutput(Chunk(r), GenerateTranslation(text)))
    /\ UNCHANGED <<request, field_no, chunks, translated_fields, response>>
    /\ UNCHANGED notPipeVars

\* The loop is over: the outputs are joined and returned.
JoinChunks(r) ==
    /\ rpc[r] = "loop"
    /\ chunk_no[r] > Len(chunks[r][field_no[r]])
    /\ translated_fields' = [translated_fields EXCEPT ![r] =
           Append(@, Join(<<"\n">>, translated_chunks[r][field_no[r]]))]
    /\ rpc' = [rpc EXCEPT ![r] = "returned"]
    /\ UNCHANGED <<request, field_no, chunks, translated_chunks, chunk_no, calls,
                   response>>
    /\ UNCHANGED notPipeVars

\* translate: the next field goes to translate_html_content.
NextField(r) ==
    /\ rpc[r] = "returned"
    /\ field_no[r] < Len(FieldNames)
    /\ field_no' = [field_no EXCEPT ![r] = @ + 1]
    /\ chunk_no' = [chunk_no EXCEPT ![r] = 0]
    /\ rpc' = [rpc EXCEPT ![r] = "enter"]
    /\ UNCHANGED <<request, chunks, translated_chunks, translated_fields, calls,
                   response>>
    /\ UNCHANGED notPipeVars

\* translate: the three values are sanitized and the response is returned.
RespondHtml(r) ==
    /\ rpc[r] = "returned"
    /\ field_no[r] = Len(FieldNames)
    /\ response' = [response EXCEPT ![r] =
           [translated_text |-> HtmlTranslatedText(translated_fields[r]),
            success |-> TRUE,
            model_used |-> request[r].model]]
    /\ rpc' = [rpc EXCEPT ![r] = "done"]
    /\ UNCHANGED <<request, field_no, chunks, translated_chunks, chunk_no,
                   translated_fields, calls>>
    /\ UNCHANGED notPipeVars

\* translate, plain text: generate_translation raises, the except clause of
\* translate returns the response of a failure.
PlainCallRaises(r) ==
    /\ rpc[r] = "plain_await"
    /\ calls' = Answered(r, Raised)
    /\ response' = [response EXCEPT ![r] = FailureResponse(request[r])]
    /\ rpc' = [rpc EXCEPT ![r] = "done"]
    /\ UNCHANGED <<request, field_no, chunks, translated_chunks, chunk_no,
                   translated_fields>>
    /\ UNCHANGED notPipeVars

\* translate, plain text: generate_translation returns, the fields are read
\* from the response and the response is returned.
PlainCallReturns(r) ==
    /\ rpc[r] = "plain_await"
    /\ \E text \in CombinedResponses(calls[r][Len(calls[r])].payload.prompt) :
           /\ calls' = Answered(r, Returned(text))
           /\ response' = [response EXCEPT ![r] =
                  [translated_text |-> PlainTranslatedText(GenerateTranslation(text)),
                   success |-> TRUE,
                   model_used |-> request[r].model]]
    /\ rpc' = [rpc EXCEPT ![r] = "done"]
    /\ UNCHANGED <<request, field_no, chunks, translated_chunks, chunk_no,
                   translated_fields>>
    /\ UNCHANGED notPipeVars

PipeNext ==
    \E r \in Requests :
        \/ TranslateHtml(r)
        \/ TranslatePlain(r)
        \/ ReturnContent(r)
        \/ SplitContent(r)
        \/ ProcessChunk(r)
        \/ ChunkCallRaises(r)
        \/ ChunkCallReturns(r)
        \/ JoinChunks(r)
        \/ NextField(r)
        \/ RespondHtml(r)
        \/ PlainCallRaises(r)
        \/ PlainCallReturns(r)

Init == PipeInit /\ ParserIdle /\ ChunkerIdle /\ StructIdle /\ ResumeIdle /\ FlatIdle /\ SanitizeIdle

Spec == Init /\ [][PipeNext]_vars

\* Two requests have arrived and run on the same translation_service and
\* ollama_service: each coroutine may take its next step at any time. The
\* requests are those with a short body and no section.
MaxPairBody == 8
PairRequests ==
    {q \in TranslationRequests : q.section = <<>> /\ Len(q.body) <= MaxPairBody}

PairInit ==
    /\ request \in [Requests -> PairRequests]
    /\ rpc = [r \in Requests |-> "start"]
    /\ field_no = [r \in Requests |-> 0]
    /\ chunks = [r \in Requests |-> <<<<>>, <<>>, <<>>>>]
    /\ translated_chunks = [r \in Requests |-> <<<<>>, <<>>, <<>>>>]
    /\ chunk_no = [r \in Requests |-> 0]
    /\ translated_fields = [r \in Requests |-> <<>>]
    /\ calls = [r \in Requests |-> <<>>]
    /\ response = [r \in Requests |-> NoResponse]

InitPair == PairInit /\ ParserIdle /\ ChunkerIdle /\ StructIdle /\ ResumeIdle /\ FlatIdle /\ SanitizeIdle

SpecPair == InitPair /\ [][PipeNext]_vars

-----------------------------------------------------------------------------
(* sanitize_html called on its own                                          *)

\* The inputs that are enumerated: whole and split script tags, and a text.
SanitizePieces ==
    {<<"<", "s", "c", "r">>,
     <<"i", "p", "t", ">">>,
     <<"<", "s", "c", "r", "i", "p", "t", ">">>,
     <<"<", "/", "s", "c", "r", "i", "p", "t", ">">>,
     <<"x">>}
MaxSanitizePieces == 4
SanitizeDocs == {Concat(ps) : ps \in SeqsUpTo(SanitizePieces, MaxSanitizePieces)}

SanitizeInit ==
    /\ sanitize_input \in SanitizeDocs
    /\ sanitize_output = <<>>
    /\ hpc = "call"

\* sanitize_html(html) returns
Sanitize ==
    /\ hpc = "call"
    /\ sanitize_output' = SanitizeHtml(sanitize_input)
    /\ hpc' = "done"
    /\ UNCHANGED sanitize_input
    /\ UNCHANGED notSanitizeVars

SanitizeNext == Sanitize

InitSanitize ==
    SanitizeInit /\ ParserIdle /\ ChunkerIdle /\ StructIdle /\ PipeIdle /\ ResumeIdle
    /\ FlatIdle

SpecSanitize == InitSanitize /\ [][SanitizeNext]_vars

\* Whether a script opening tag starts at i: '<script', then any characters
\* other than '>', then '>'.
ScriptOpeningTagAt(s, i) ==
    /\ s[i] = "<"
    /\ LiteralAt(s, ScriptWord, i + 1)
    /\ IndexFrom(s, ">", i + 1 + Len(ScriptWord)) # 0

\* C30: what sanitize_html returns holds no script opening tag.
C30_NoScriptOpeningTag ==
    hpc = "done" => 
        \A i \in 1..Len(sanitize_output) : ~ScriptOpeningTagAt(sanitize_output, i)


-----------------------------------------------------------------------------
(* extract_text_from_html and reconstruct_html: the flat strategy          *)

\* The documents and the translated segments that are enumerated.
FlatPieces ==
    {<<"<", "p", ">">>, <<"<", "/", "p", ">">>, <<"<", "b", "r", ">">>,
     <<"H", "i">>, <<" ">>, <<">">>}
MaxFlatPieces == 4
FlatDocs == {Concat(ps) : ps \in SeqsUpTo(FlatPieces, MaxFlatPieces)}
FlatTranslations == {<<"H", "o", "l", "a">>, Placeholder(1)}

FlatInit ==
    /\ flat_calls = <<>>
    /\ flat_html \in FlatDocs
    /\ flat_segments = <<>>
    /\ flat_template = <<>>
    /\ flat_translated = <<>>
    /\ flat_result = <<>>
    /\ fpc = "start"

ExtractText ==
    /\ fpc = "start"
    /\ flat_segments' = ExtractTextFromHtml(flat_html).segments
    /\ flat_template' = ExtractTextFromHtml(flat_html).template
    /\ fpc' = "extracted"
    /\ UNCHANGED <<flat_html, flat_translated, flat_result, flat_calls>>
    /\ UNCHANGED notFlatVars

\* reconstruct_html with any list of the length of the segments
Reconstruct ==
    /\ fpc = "extracted"
    /\ \E translated \in [1..Len(flat_segments) -> FlatTranslations] :
           /\ flat_translated' = translated
           /\ flat_result' = ReconstructHtml(translated, flat_template)
    /\ fpc' = "done"
    /\ UNCHANGED <<flat_html, flat_segments, flat_template, flat_calls>>
    /\ UNCHANGED notFlatVars

FlatNext == ExtractText \/ Reconstruct

InitFlat == FlatInit /\ ParserIdle /\ ChunkerIdle /\ StructIdle /\ PipeIdle /\ ResumeIdle /\ SanitizeIdle

SpecFlat == InitFlat /\ [][FlatNext]_vars

\* The positions of s, from i on, that are inside a tag: a tag goes from a
\* '<' to the next '>'.
RECURSIVE TagPositions(_, _)
TagPositions(s, i) ==
    IF i > Len(s) THEN {}
    ELSE LET close == IndexFrom(s, ">", i)
         IN  IF s[i] = "<" /\ close # 0
             THEN (i..close) \cup TagPositions(s, close + 1)
             ELSE TagPositions(s, i + 1)

\* The stretches <<first, last>> of s outside the tags whose text is seg, with
\* or without the white space around it.
TextRuns(s, seg) ==
    {run \in (1..Len(s)) \X (1..Len(s)) :
        /\ run[1] <= run[2]
        /\ (run[1]..run[2]) \cap TagPositions(s, 1) = {}
        /\ Strip(SubSeq(s, run[1], run[2])) = seg}

\* s from position i on, with the m-th of the runs replaced by translated[m].
RECURSIVE Replaced(_, _, _, _)
Replaced(s, runs, translated, i) ==
    IF i > Len(s) THEN <<>>
    ELSE IF \E m \in DOMAIN runs : runs[m][1] = i
    THEN LET m == CHOOSE n \in DOMAIN runs : runs[n][1] = i
         IN  translated[m] \o Replaced(s, runs, translated, runs[m][2] + 1)
    ELSE <<s[i]>> \o Replaced(s, runs, translated, i + 1)

\* Whether the segments from the m-th on are the text of runs of the document
\* that do not overlap each other or the runs chosen so far, and the result is
\* the document with all these runs replaced.
RECURSIVE IsReplacement(_, _, _, _, _)
IsReplacement(s, segments, translated, out, runs) ==
    IF Len(runs) = Len(segments) THEN out = Replaced(s, runs, translated, 1)
    ELSE \E run \in TextRuns(s, segments[Len(runs) + 1]) :
             /\ \A k \in DOMAIN runs :
                    (run[1]..run[2]) \cap (runs[k][1]..runs[k][2]) = {}
             /\ IsReplacement(s, segments, translated, out, Append(runs, run))

\* C15: the segments are text runs of the input outside its tags, and the
\* reconstructed document is the input with each of these runs replaced by
\* its translated segment, every character of a tag unchanged and in place.
C15_FlatKeepsTags ==
    fpc = "done" =>
        IsReplacement(flat_html, flat_segments, flat_translated, flat_result, <<>>)

\* The indices of the placeholders of a template with n segments, in the
\* order in which the placeholders stand in the template.
RECURSIVE PlaceholderOrder(_, _)
PlaceholderOrder(template, n) ==
    IF template = <<>> THEN <<>>
    ELSE IF \E k \in 0..(n - 1) : StartsWith(template, Placeholder(k))
    THEN LET k == CHOOSE i \in 0..(n - 1) : StartsWith(template, Placeholder(i))
         IN  <<k>> \o PlaceholderOrder(Drop(template, Len(Placeholder(k))), n)
    ELSE PlaceholderOrder(Tail(template), n)

\* C21: the n segments of the flat strategy have the indices 0..n-1, each
\* index stands in exactly one placeholder of the template, and the indices
\* increase in document order, untagged text at both ends included.
C21_IndexOrderIsDocumentOrder ==
    fpc \in {"extracted", "done"} =>
        PlaceholderOrder(flat_template, Len(flat_segments))
            = [k \in 1..Len(flat_segments) |-> k - 1]

\* The template with each placeholder {TEXT_i__} replaced by translated
\* segment i, and with nothing else replaced: what every order of replacement
\* gives when no replacement touches the text put in by another.
RECURSIVE Substituted(_, _)
Substituted(template, translated) ==
    IF template = <<>> THEN <<>>
    ELSE IF \E k \in 1..Len(translated) : StartsWith(template, Placeholder(k - 1))
    THEN LET k == CHOOSE i \in 1..Len(translated) :
                      StartsWith(template, Placeholder(i - 1))
         IN  translated[k]
             \o Substituted(Drop(template, Len(Placeholder(k - 1))), translated)
    ELSE <<Head(template)>> \o Substituted(Tail(template), translated)

\* C22: reconstruct_html replaces each placeholder of the template by the
\* translated segment of its index and replaces nothing else, also when a
\* translated segment holds a placeholder token of another index.
C22_OrderIndependent ==
    fpc = "done" => flat_result = Substituted(flat_template, flat_translated)

-----------------------------------------------------------------------------
(* OllamaService._translate_html_content_old_method: the legacy flat path   *)

SegmentDelimiter == <<"-", "-", "-", "S", "E", "G", "M", "E", "N", "T", "-", "-", "-">>

\* The prompt for the batch: the segments joined by the delimiter.
LegacyPrompt(segments, target_language) ==
    [template |-> "segments", target_language |-> target_language,
     parts |-> <<Join(SegmentDelimiter, segments)>>]

\* A plausible slip: every individual prompt is for the first segment.
IndividualPrompt_First(segments, k, target_language) ==
    [template |-> "individual", target_language |-> target_language,
     parts |-> <<segments[1]>>]

\* The one-shot prompt for the k-th segment.
IndividualPrompt(segments, k, target_language) ==
    [template |-> "individual", target_language |-> target_language,
     parts |-> <<segments[k]>>]

\* translated_combined.split("---SEGMENT---"), each part stripped
SplitSegments(translated_combined) ==
    LET parts == Split(translated_combined, SegmentDelimiter)
    IN  [k \in 1..Len(parts) |-> Strip(parts[k])]

\* The responses of the model to the batch that are enumerated: one
\* translation per segment, the same with a delimiter too many, and nothing.
LegacyResponses(segments) ==
    LET answer == Join(<<" ">> \o SegmentDelimiter \o <<" ">>,
                       [k \in 1..Len(segments) |-> ModelTranslation(segments[k])])
    IN  {<<" ">> \o answer \o <<"\n">>, answer \o SegmentDelimiter, <<>>}

\* The responses to a one-shot prompt that are enumerated.
IndividualResponses(prompt) ==
    {<<" ">> \o ModelTranslation(prompt.parts[1]) \o <<"\n">>, <<>>}

LegacyCall(prompt, model) == [payload |-> Payload(prompt, model), reply |-> Pending]
LegacyAnswered(reply) == [flat_calls EXCEPT ![Len(flat_calls)].reply = reply]
LegacyLanguage == flat_calls[1].payload.prompt.target_language

LegacyInit ==
    /\ flat_html \in FlatDocs
    /\ flat_segments = <<>>
    /\ flat_template = <<>>
    /\ flat_translated = <<>>
    /\ flat_result = <<>>
    /\ flat_calls = <<>>
    /\ fpc = "legacy"

\* Up to the first await: the flat extraction; without segments the content is
\* returned, otherwise the batch prompt is sent.
LegacyExtract ==
    /\ fpc = "legacy"
    /\ flat_segments' = ExtractTextFromHtml(flat_html).segments
    /\ flat_template' = ExtractTextFromHtml(flat_html).template
    /\ IF ExtractTextFromHtml(flat_html).segments = <<>>
       THEN /\ flat_result' = flat_html
            /\ fpc' = "done"
            /\ UNCHANGED flat_calls
       ELSE /\ \E target_language \in TargetLanguages, model \in Models :
                   flat_calls' = <<LegacyCall(
                       LegacyPrompt(ExtractTextFromHtml(flat_html).segments,
                                    target_language), model)>>
            /\ fpc' = "await_batch"
            /\ UNCHANGED flat_result
    /\ UNCHANGED <<flat_html, flat_translated>>
    /\ UNCHANGED notFlatVars

\* generate_translation raises: nothing in the method catches it.
LegacyCallRaises ==
    /\ fpc \in {"await_batch", "await_segment"}
    /\ flat_calls' = LegacyAnswered(Raised)
    /\ fpc' = "raised"
    /\ UNCHANGED <<flat_html, flat_segments, flat_template, flat_translated, flat_result>>
    /\ UNCHANGED notFlatVars

\* The batch call returns: with as many parts as segments the HTML is
\* reconstructed, otherwise the list is emptied and the one-shot prompt for
\* the first segment is sent.
LegacyBatchReturns ==
    /\ fpc = "await_batch"
    /\ \E text \in LegacyResponses(flat_segments) :
           LET parts == SplitSegments(GenerateTranslation(text))
           IN  IF Len(parts) = Len(flat_segments)
               THEN /\ flat_calls' = LegacyAnswered(Returned(text))
                    /\ flat_translated' = parts
                    /\ flat_result' = ReconstructHtml(parts, flat_template)
                    /\ fpc' = "done"
               ELSE /\ flat_calls' = Append(LegacyAnswered(Returned(text)),
                           LegacyCall(IndividualPrompt(flat_segments, 1, LegacyLanguage),
                                      flat_calls[1].payload.model))
                    /\ flat_translated' = <<>>
                    /\ fpc' = "await_segment"
                    /\ UNCHANGED flat_result
    /\ UNCHANGED <<flat_html, flat_segments, flat_template>>
    /\ UNCHANGED notFlatVars

\* A one-shot call returns: its stripped response is appended, and either the
\* prompt for the next segment is sent or the HTML is reconstructed.
LegacySegmentReturns ==
    /\ fpc = "await_segment"
    /\ \E text \in IndividualResponses(flat_calls[Len(flat_calls)].payload.prompt) :
           LET list == Append(flat_translated, Strip(GenerateTranslation(text)))
           IN  /\ flat_translated' = list
               /\ IF Len(list) < Len(flat_segments)
                  THEN /\ flat_calls' = Append(LegacyAnswered(Returned(text)),
                              LegacyCall(IndividualPrompt(flat_segments, Len(list) + 1,
                                                          LegacyLanguage),
                                         flat_calls[1].payload.model))
                       /\ UNCHANGED <<flat_result, fpc>>
                  ELSE /\ flat_calls' = LegacyAnswered(Returned(text))
                       /\ flat_result' = ReconstructHtml(list, flat_template)
                       /\ fpc' = "done"
    /\ UNCHANGED <<flat_html, flat_segments, flat_template>>
    /\ UNCHANGED notFlatVars

LegacyNext ==
    \/ LegacyExtract
    \/ LegacyCallRaises
    \/ LegacyBatchReturns
    \/ LegacySegmentReturns

InitLegacy == LegacyInit /\ ParserIdle /\ ChunkerIdle /\ StructIdle /\ PipeIdle /\ ResumeIdle /\ SanitizeIdle

SpecLegacy == InitLegacy /\ [][LegacyNext]_vars

\* Whether the batch call has returned, and with a number of parts other than
\* the number of segments.
BatchReturned ==
    flat_calls # <<>> /\ flat_calls[1].reply.kind = "returned"
BatchMismatch ==
    /\ BatchReturned
    /\ Len(Split(GenerateTranslation(flat_calls[1].reply.text), SegmentDelimiter))
           # Len(flat_segments)

\* The calls after the first are the one-shot calls for the segments, in
\* segment order.
InSegmentOrder ==
    \A k \in 2..Len(flat_calls) :
        /\ k - 1 <= Len(flat_segments)
        /\ flat_calls[k].payload.prompt.template = "individual"
        /\ flat_calls[k].payload.prompt.parts = <<flat_segments[k - 1]>>

-----------------------------------------------------------------------------
(* ResumeService.summarize and OllamaService.resume_article                *)

\* The parameters of resume_article(self, title, body, model, language), none
\* of which has a default, and the keywords summarize_field calls it with.
ResumeArticleParameters == {"title", "body", "model", "language"}
SummarizeFieldKeywords == {"request", "model", "language"}

\* Whether Python binds a call by keywords to the parameters; it raises
\* TypeError when a keyword names no parameter or a parameter gets no value.
CallBinds(parameters, keywords) == keywords = parameters

\* The prompt resume_article builds for a language.
ResumePrompt(title, body, language) ==
    [template |-> IF language = "en" THEN "resume_en" ELSE "resume_other",
     target_language |-> language,
     parts |-> <<title, body>>]

\* has_html of summarize
ResumeHasHtml(req) ==
    \/ Contains(req.article, "<") /\ Contains(req.article, ">")
    \/ Contains(req.esArticle, "<") /\ Contains(req.esArticle, ">")

\* The request after lines 43-45: both fields sanitized when has_html holds.
ResumeSanitized(req) ==
    IF ResumeHasHtml(req)
    THEN [article |-> SanitizeHtml(req.article), esArticle |-> SanitizeHtml(req.esArticle)]
    ELSE req

\* The articles that are enumerated.
ResumePieces == {<<"<", "p", ">">>, <<"H", "o", "l", "a">>, <<" ">>}
MaxResumePieces == 2
ResumeTexts == {Concat(ps) : ps \in SeqsUpTo(ResumePieces, MaxResumePieces)}

ResumeInit ==
    /\ resume_request \in [article : ResumeTexts, esArticle : ResumeTexts]
    /\ resume_calls = <<>>
    /\ resume_response = [article |-> <<>>, esArticle |-> <<>>]
    /\ rspc = "start"

\* summarize up to its first await: has_html, the sanitizing of the request,
\* and summarize_field(request.article, language="en"), which calls
\* resume_article by keywords.  When the keywords do not bind, the TypeError
\* reaches the except clause of summarize, which returns two empty fields.
Summarize ==
    /\ rspc = "start"
    /\ resume_request' = ResumeSanitized(resume_request)
    /\ IF CallBinds(ResumeArticleParameters, SummarizeFieldKeywords)
       THEN /\ resume_calls' = Append(resume_calls,
                   [payload |-> Payload(ResumePrompt(ResumeSanitized(resume_request).article,
                                                     <<>>, "en"),
                                        OLLAMA_DEFAULT_MODEL),
                    reply |-> Pending])
            /\ rspc' = "await_en"
            /\ UNCHANGED resume_response
       ELSE /\ resume_response' = [article |-> <<>>, esArticle |-> <<>>]
            /\ rspc' = "done"
            /\ UNCHANGED resume_calls
    /\ UNCHANGED notResumeVars

ResumeNext == Summarize

InitResume == ResumeInit /\ ParserIdle /\ ChunkerIdle /\ StructIdle /\ PipeIdle /\ FlatIdle /\ SanitizeIdle

SpecResume == InitResume /\ [][ResumeNext]_vars

\* C14: the article of the response is the sanitized summary the model gave
\* to the English prompt, the esArticle the sanitized summary it gave to the
\* other-language prompt, and neither is empty.
C14_TwoSummaries ==
    rspc = "done" =>
        /\ \E k \in 1..Len(resume_calls) :
               /\ resume_calls[k].payload.prompt.template = "resume_en"
               /\ resume_response.article = SanitizeText(resume_calls[k].reply.text)
        /\ \E k \in 1..Len(resume_calls) :
               /\ resume_calls[k].payload.prompt.template = "resume_other"
               /\ resume_response.esArticle = SanitizeText(resume_calls[k].reply.text)
        /\ resume_response.article # <<>>
        /\ resume_response.esArticle # <<>>

-----------------------------------------------------------------------------
(* Claims about translate_html_content and TranslationService.translate    *)

\* The calls of generate_translation made for chunk j of field f of request r.
CallsFor(r, f, j) ==
    {k \in 1..Len(calls[r]) : calls[r][k].field = f /\ calls[r][k].chunk = j}

\* The chunks of field f of request r that have an output.
Processed(r, f) == 1..Len(translated_chunks[r][f])

\* Whether generate_translation raised, or returned a response long enough to
\* be kept, for chunk j of field f.
RaisedFor(r, f, j) ==
    \E k \in CallsFor(r, f, j) : calls[r][k].reply.kind = "raised"
TranslatedFor(r, f, j) ==
    \E k \in CallsFor(r, f, j) :
        /\ calls[r][k].reply.kind = "returned"
        /\ Len(Strip(calls[r][k].reply.text)) >= MinViableLen

Fields == 1..Len(FieldNames)

\* C7: when the model call raises for a chunk, the output for that chunk is the
\* chunk's original content; the output for every chunk the model has
\* translated is the model's response, trimmed; the call of
\* translate_html_content returns the join of the outputs, and the request
\* returns a response with success=true that carries it.
C7_FailureIsolation ==
    \A r \in Requests :
        /\ \A f \in Fields : \A j \in Processed(r, f) :
               /\ RaisedFor(r, f, j) =>
                      translated_chunks[r][f][j] = chunks[r][f][j]
               /\ \A k \in CallsFor(r, f, j) :
                      (/\ calls[r][k].reply.kind = "returned"
                       /\ Len(Strip(calls[r][k].reply.text)) >= MinViableLen)
                      => translated_chunks[r][f][j] = Strip(calls[r][k].reply.text)
        /\ (rpc[r] = "done" /\ calls[r] # <<>> /\ calls[r][1].field >= 1) =>
               /\ response[r].success
               /\ \A f \in Fields :
                      ~TooShort(request[r][FieldNames[f]]) =>
                          translated_fields[r][f] =
                              Join(<<"\n">>, translated_chunks[r][f])
               /\ response[r].translated_text.body =
                      SanitizeHtml(translated_fields[r][2])

\* A request has returned whose body had three chunks: the call raised for the
\* second, which is in the output as it was, and the first and the third are
\* in the output as the model translated them.
C7_Witness ==
    \E r \in Requests :
        /\ rpc[r] = "done"
        /\ response[r].success
        /\ Len(chunks[r][2]) = 3
        /\ RaisedFor(r, 2, 2)
        /\ TranslatedFor(r, 2, 1)
        /\ TranslatedFor(r, 2, 3)
        /\ translated_chunks[r][2][2] = chunks[r][2][2]
        /\ translated_chunks[r][2][1] # chunks[r][2][1]
        /\ translated_chunks[r][2][3] # chunks[r][2][3]

\* C8: a chunk whose extraction yields no segment gets no model call, and its
\* output is the chunk itself.
C8_ZeroSegmentsPassThrough ==
    \A r \in Requests : \A f \in Fields : \A j \in 1..Len(chunks[r][f]) :
        ExtractTextWithStructure(chunks[r][f][j]).segments = <<>> =>
            /\ CallsFor(r, f, j) = {}
            /\ j \in Processed(r, f) =>
                   translated_chunks[r][f][j] = chunks[r][f][j]

\* C9, as the claim states it: a chunk for which the primary path has raised is
\* processed again by the legacy flat path, which sends a prompt with the
\* ---SEGMENT--- delimiter for it.
C9_LegacyPerChunk ==
    \A r \in Requests : \A f \in Fields : \A j \in Processed(r, f) :
        RaisedFor(r, f, j) =>
            \E k \in CallsFor(r, f, j) :
                calls[r][k].payload.prompt.template = "segments"

\* C9, amended: a chunk for which the primary path has raised is not processed
\* again: its output is the chunk's original content, it has had one model
\* call and no more, and translate_html_content sends no prompt with the
\* ---SEGMENT--- delimiter; every other chunk has the output of the primary
\* path for the response it got.
C9_NoLegacyPerChunk ==
    \A r \in Requests :
        /\ \A k \in 1..Len(calls[r]) :
               calls[r][k].field >= 1 =>
                   calls[r][k].payload.prompt.template = "structured"
        /\ \A f \in Fields : \A j \in Processed(r, f) :
               /\ Cardinality(CallsFor(r, f, j)) = 1
               /\ RaisedFor(r, f, j) =>
                      translated_chunks[r][f][j] = chunks[r][f][j]
               /\ \A k \in CallsFor(r, f, j) :
                      calls[r][k].reply.kind = "returned" =>
                          translated_chunks[r][f][j] =
                              ChunkOutput(chunks[r][f][j],
                                          GenerateTranslation(calls[r][k].reply.text))

\* translate_html_content has returned for a body of several chunks: the call
\* for the first chunk raised and the chunk is in the output as it was, after
\* one call; the second chunk is in the output as the model translated it.
C9_Witness ==
    \E r \in Requests :
        /\ rpc[r] = "returned"
        /\ field_no[r] = 2
        /\ Len(chunks[r][2]) >= 2
        /\ RaisedFor(r, 2, 1)
        /\ Cardinality(CallsFor(r, 2, 1)) = 1
        /\ translated_chunks[r][2][1] = chunks[r][2][1]
        /\ TranslatedFor(r, 2, 2)
        /\ translated_chunks[r][2][2] # chunks[r][2][2]

\* Whether generate_translation returned, for chunk j of field f, a response
\* that is empty or has fewer than five characters when trimmed.
ShortFor(r, f, j) ==
    \E k \in CallsFor(r, f, j) :
        /\ calls[r][k].reply.kind = "returned"
        /\ Len(Strip(calls[r][k].reply.text)) < 5

\* C25: when the model returns for a chunk a response that is empty or shorter
\* than five characters when trimmed, the output for that chunk is the chunk's
\* original content, and the loop goes on: when translate_html_content has
\* returned, every chunk has its output.
C25_ShortResponseKeepsChunk ==
    \A r \in Requests : \A f \in Fields :
        /\ \A j \in Processed(r, f) :
               ShortFor(r, f, j) => translated_chunks[r][f][j] = chunks[r][f][j]
        /\ (rpc[r] \in {"returned", "done"} /\ field_no[r] >= f) =>
               Len(translated_chunks[r][f]) = Len(chunks[r][f])

\* A request has returned whose body had several chunks: the response for the
\* first was too short and the chunk is in the output as it was, the response
\* for the second was empty, and a later chunk is in the output as translated.
C25_Witness ==
    \E r \in Requests :
        /\ rpc[r] = "done"
        /\ Len(chunks[r][2]) = 3
        /\ \E k \in CallsFor(r, 2, 1) :
               calls[r][k].reply.kind = "returned" /\ calls[r][k].reply.text # <<>>
        /\ ShortFor(r, 2, 1)
        /\ translated_chunks[r][2][1] = chunks[r][2][1]
        /\ \E k \in CallsFor(r, 2, 2) :
               calls[r][k].reply.kind = "returned" /\ calls[r][k].reply.text = <<>>
        /\ translated_chunks[r][2][2] = chunks[r][2][2]
        /\ TranslatedFor(r, 2, 3)
        /\ translated_chunks[r][2][3] # chunks[r][2][3]

\* The outputs the loop of translate_html_content has appended for the field
\* the request is at.
Outputs(r) == translated_chunks[r][field_no[r]]

\* Whether x is what the loop appends for chunk j of field f: the chunk itself,
\* or the kept response of the call made for that chunk.
OutputOf(r, f, j, x) ==
    \/ x = chunks[r][f][j]
    \/ \E k \in CallsFor(r, f, j) :
           /\ calls[r][k].reply.kind = "returned"
           /\ calls[r][k].payload.prompt =
                  ChunkPrompt(request[r].target_language, chunks[r][f][j])
           /\ x = Strip(calls[r][k].reply.text)

\* C27: every path through the loop of translate_html_content appends one
\* output: while chunk i (counted from 1) is being processed there are i - 1
\* outputs, after it i; output j is the output of chunk j; and what
\* translate_html_content returns is the join of the outputs in chunk order.
C27_OneOutputPerChunk ==
    \A r \in Requests :
        /\ rpc[r] \in {"loop", "await"} =>
               /\ Len(Outputs(r)) = chunk_no[r] - 1
               /\ Len(Outputs(r)) <= Len(chunks[r][field_no[r]])
        /\ \A f \in Fields :
               /\ Len(translated_chunks[r][f]) <= Len(chunks[r][f])
               /\ \A j \in Processed(r, f) :
                      OutputOf(r, f, j, translated_chunks[r][f][j])
               /\ (f <= Len(translated_fields[r]) /\ chunks[r][f] # <<>>) =>
                      /\ Len(translated_chunks[r][f]) = Len(chunks[r][f])
                      /\ translated_fields[r][f] =
                             Join(<<"\n">>, translated_chunks[r][f])

\* translate_html_content has returned for a body of three chunks that went
\* through the three paths: the call for one chunk raised, the response for
\* another was too short, a third was translated; there are three outputs and
\* the result is their join.
C27_Witness ==
    \E r \in Requests :
        /\ rpc[r] = "returned"
        /\ field_no[r] = 2
        /\ Len(chunks[r][2]) = 3
        /\ Len(translated_chunks[r][2]) = 3
        /\ \E i, j, k \in 1..3 :
               /\ RaisedFor(r, 2, i)
               /\ ShortFor(r, 2, j)
               /\ TranslatedFor(r, 2, k)
        /\ translated_fields[r][2] = Join(<<"\n">>, translated_chunks[r][2])
        /\ translated_fields[r][2] # request[r].body

\* The position of a call in the order of the chunks of a request.
CallsInChunkOrder(r) ==
    \A k \in 1..(Len(calls[r]) - 1) :
        \/ calls[r][k].field < calls[r][k + 1].field
        \/ /\ calls[r][k].field = calls[r][k + 1].field
           /\ calls[r][k].chunk < calls[r][k + 1].chunk

\* C28: within one request at most one model call is outstanding, and it is
\* the last one made: every earlier call has returned or raised; the calls are
\* made in chunk order, so no chunk has more than one call, whether or not the
\* call raised.
C28_OneCallAtATime ==
    \A r \in Requests :
        /\ \A k \in 1..(Len(calls[r]) - 1) : calls[r][k].reply.kind # "pending"
        /\ (calls[r] # <<>> /\ calls[r][Len(calls[r])].reply.kind = "pending")
               <=> rpc[r] \in {"await", "plain_await"}
        /\ CallsInChunkOrder(r)
        /\ \A f \in Fields : \A j \in 1..Len(chunks[r][f]) :
               Cardinality(CallsFor(r, f, j)) <= 1

\* The call for the second chunk of a body is outstanding after the call for
\* the first chunk has raised: the first chunk has had that one call.
C28_Witness ==
    \E r \in Requests :
        /\ rpc[r] = "await"
        /\ field_no[r] = 2
        /\ chunk_no[r] = 2
        /\ RaisedFor(r, 2, 1)
        /\ Cardinality(CallsFor(r, 2, 1)) = 1
        /\ Cardinality(CallsFor(r, 2, 2)) = 1
        /\ calls[r][Len(calls[r])].reply.kind = "pending"

\* What a request that makes the calls `made' returns when it runs alone: on
\* the HTML path each field is the content itself when it is too short, and
\* otherwise the join of the outputs of its own chunks; on the plain path the
\* fields are read from the response to its one call.
OwnPrompt(r, k) ==
    IF calls[r][k].field = 0
    THEN CreatePromptTranslation(SanitizeText(request[r].title),
                                 SanitizeText(request[r].body),
                                 SanitizeText(request[r].section),
                                 SanitizeText(request[r].target_language))
    ELSE ChunkPrompt(request[r].target_language,
                     SplitHtmlIntoChunks(request[r][FieldNames[calls[r][k].field]],
                                         MaxChunkChars)[calls[r][k].chunk])
OwnField(r, f) ==
    IF TooShort(request[r][FieldNames[f]])
    THEN request[r][FieldNames[f]]
    ELSE LET own == SplitHtmlIntoChunks(request[r][FieldNames[f]], MaxChunkChars)
         IN  Join(<<"\n">>,
                  [j \in 1..Len(own) |->
                      IF \E k \in CallsFor(r, f, j) : calls[r][k].reply.kind = "returned"
                      THEN LET k == CHOOSE k \in CallsFor(r, f, j) : TRUE
                           IN  ChunkOutput(own[j],
                                           GenerateTranslation(calls[r][k].reply.text))
                      ELSE own[j]])
OwnResponse(r) ==
    IF HasHtml(request[r])
    THEN [translated_text |->
              HtmlTranslatedText([f \in Fields |-> OwnField(r, f)]),
          success |-> TRUE, model_used |-> request[r].model]
    ELSE IF calls[r][1].reply.kind = "raised"
         THEN FailureResponse(request[r])
         ELSE [translated_text |->
                   PlainTranslatedText(GenerateTranslation(calls[r][1].reply.text)),
               success |-> TRUE, model_used |-> request[r].model]

\* C29: however the steps of two requests interleave, every call a request
\* makes carries a prompt built from that request alone, the chunks and the
\* outputs it holds are those of its own fields, and what it returns is what it
\* returns alone for the replies its own calls got.
C29_RequestsIsolated ==
    \A r \in Requests :
        /\ \A k \in 1..Len(calls[r]) :
               calls[r][k].payload = Payload(OwnPrompt(r, k), request[r].model)
        /\ \A f \in Fields :
               /\ chunks[r][f] \in
                      {<<>>, SplitHtmlIntoChunks(request[r][FieldNames[f]], MaxChunkChars)}
               /\ \A j \in Processed(r, f) :
                      OutputOf(r, f, j, translated_chunks[r][f][j])
               /\ f <= Len(translated_fields[r]) =>
                      translated_fields[r][f] = OwnField(r, f)
        /\ rpc[r] = "done" => response[r] = OwnResponse(r)
        /\ rpc[r] # "done" => response[r] = NoResponse

\* Two different requests are both suspended at an await of the HTML path, the
\* second after the first has already got the output of a chunk.
C29_Witness ==
    /\ request["r1"] # request["r2"]
    /\ rpc["r1"] = "await"
    /\ rpc["r2"] = "await"
    /\ field_no["r1"] # field_no["r2"]
    /\ \E f \in Fields : translated_chunks["r1"][f] # <<>>

\* No field of the request holds both '<' and '>'.
PlainRequest(req) ==
    \A f \in Fields :
        ~(Contains(req[FieldNames[f]], "<") /\ Contains(req[FieldNames[f]], ">"))

\* C10: a request none of whose fields holds both '<' and '>' makes one model
\* call, with the combined prompt built from its sanitized fields, and no other
\* call up to its return.
C10_OneCombinedCall ==
    \A r \in Requests :
        (rpc[r] \in {"plain_await", "enter", "loop", "await", "returned", "done"}
         /\ PlainRequest(request[r])) =>
            /\ Len(calls[r]) = 1
            /\ calls[r][1].payload.prompt =
                   CreatePromptTranslation(SanitizeText(request[r].title),
                                           SanitizeText(request[r].body),
                                           SanitizeText(request[r].section),
                                           SanitizeText(request[r].target_language))

\* A request whose title holds '>' but no '<' has returned after one call,
\* which the model answered.
C10_Witness ==
    \E r \in Requests :
        /\ rpc[r] = "done"
        /\ PlainRequest(request[r])
        /\ Contains(request[r].title, ">")
        /\ Len(calls[r]) = 1
        /\ calls[r][1].payload.prompt.template = "combined"
        /\ calls[r][1].reply.kind = "returned"
        /\ response[r].success

\* The labels of the three fields of the plain-text response.
FieldLabels == [title |-> TituloLabels, body |-> CuerpoLabels, section |-> SeccionLabels]

\* The text that follows one of the labels on the first line of the response
\* that carries one, trimmed; the empty string when no line carries one.
OwnLineField(raw, labels) ==
    LET lines == Split(raw, <<"\n">>)
        carrying == {k \in 1..Len(lines) : LabelPositions(lines[k], labels) # {}}
    IN  IF carrying = {} THEN <<>>
        ELSE LabelledField(lines[CHOOSE k \in carrying : \A j \in carrying : k <= j],
                           labels)

\* C11: when the plain-text call has returned, the title, the body and the
\* section of the response are each the sanitized text that follows their own
\* label on its line of the model's response, and are empty when the response
\* does not carry the label.
C11_FieldsByLabel ==
    \A r \in Requests :
        (/\ rpc[r] = "done"
         /\ calls[r] # <<>>
         /\ calls[r][1].payload.prompt.template = "combined"
         /\ calls[r][1].reply.kind = "returned") =>
            \A f \in Fields :
                response[r].translated_text[FieldNames[f]] =
                    SanitizeText(OwnLineField(calls[r][1].reply.text,
                                              FieldLabels[FieldNames[f]]))

\* Whether a call of generate_translation raised into translate: the call of
\* the plain-text path is the only one outside the try of a loop over chunks.
EndedWithException(r) ==
    \E k \in 1..Len(calls[r]) :
        calls[r][k].payload.prompt.template = "combined"
        /\ calls[r][k].reply.kind = "raised"

\* The response of a request that has returned has the three keys and reports
\* the model of the request; it has success=false and three empty fields when
\* processing ended with an exception, and success=true otherwise.
WellFormedResponse(r) ==
    rpc[r] = "done" =>
        /\ DOMAIN response[r] = {"translated_text", "success", "model_used"}
        /\ DOMAIN response[r].translated_text = {"title", "body", "section"}
        /\ response[r].model_used = request[r].model
        /\ response[r].success = ~EndedWithException(r)
        /\ EndedWithException(r) =>
               \A f \in Fields : response[r].translated_text[FieldNames[f]] = <<>>

\* The coroutine of a request that has not returned is at a position of
\* translate or translate_html_content where its next step is defined: a
\* call it awaits is the last one made and has no reply yet, the chunk it
\* awaits a translation for is a chunk of the list, and every finished call
\* of translate_html_content has returned a value.
CanStep(r) ==
    /\ rpc[r] \in {"start", "enter", "loop", "await", "returned", "plain_await"}
    /\ rpc[r] \in {"await", "plain_await"} =>
           /\ calls[r] # <<>>
           /\ calls[r][Len(calls[r])].reply = Pending
    /\ rpc[r] \in {"enter", "loop", "await", "returned"} =>
           field_no[r] \in Fields
    /\ rpc[r] = "await" => chunk_no[r] \in 1..Len(chunks[r][field_no[r]])
    /\ rpc[r] = "returned" => Len(translated_fields[r]) = field_no[r]

C13_ModelSent ==
    \A r \in Requests : \A k \in 1..Len(calls[r]) :
        /\ calls[r][k].payload.model = request[r].model
        /\ rpc[r] = "done" => response[r].model_used = calls[r][k].payload.model

-----------------------------------------------------------------------------
(* Claims about the structural extractor and reconstructor                 *)

\* The tags of a parsed document in document order, each with its depth, its
\* name and its attributes.
RECURSIVE TagList(_, _)
TagList(nodes, depth) ==
    IF nodes = <<>> THEN <<>>
    ELSE LET node == Head(nodes)
         IN  (IF node.type = "tag"
              THEN <<[depth |-> depth, name |-> node.name, attrs |-> node.attrs]>>
                   \o TagList(node.children, depth + 1)
              ELSE <<>>)
             \o TagList(Tail(nodes), depth)

\* The characters of the text nodes of a parsed document that are not white
\* space, in document order.
RECURSIVE TextChars(_)
TextChars(nodes) ==
    IF nodes = <<>> THEN <<>>
    ELSE LET node == Head(nodes)
         IN  (IF node.type = "tag" THEN TextChars(node.children)
              ELSE NonWhitespace(node.text))
             \o TextChars(Tail(nodes))

\* The attributes of a dict other than alt and title.
OtherAttrs(d) == {<<d[i][1], d[i][2]>> : i \in {j \in 1..Len(d) : d[j][1] \notin {AltKey, TitleKey}}}

\* Same tag names in the same order with the same attribute keys.
SameTags(a, b) ==
    /\ Len(a) = Len(b)
    /\ \A i \in 1..Len(a) :
           /\ a[i].name = b[i].name
           /\ DictKeys(a[i].attrs) = DictKeys(b[i].attrs)

\* C2: with the segments echoed unchanged, the reconstructed HTML has the tag
\* names of the chunk in the same order, the same attribute keys on every tag
\* and the same text up to white space.
C2_IdentityRoundTrip ==
    (spc = "done" /\ translated_segments = text_segments) =>
        /\ SameTags(TagList(Soup(result), 0), TagList(Soup(html_content), 0))
        /\ TextChars(Soup(result)) = TextChars(Soup(html_content))

\* C3: for every list of translated segments the reconstructed HTML has every
\* tag of the chunk, from the document root down, with the same name, the
\* same nesting, the same attribute keys and the same values of the
\* attributes other than alt and title.
C3_TagsPreserved ==
    spc = "done" =>
        LET out == TagList(Soup(result), 0)
            in == TagList(Soup(html_content), 0)
        IN  /\ SameTags(out, in)
            /\ \A i \in 1..Len(in) :
                   /\ out[i].depth = in[i].depth
                   /\ OtherAttrs(out[i].attrs) = OtherAttrs(in[i].attrs)

\* The tag items of a structure map in document order.
RECURSIVE TagItems(_)
TagItems(content) ==
    IF content = <<>> THEN <<>>
    ELSE LET item == Head(content)
         IN  (IF item.type = "tag" THEN <<item>> \o TagItems(item.content) ELSE <<>>)
             \o TagItems(Tail(content))

\* The tags of a document as they are written, each from its '<' to its '>'.
RECURSIVE WrittenTags(_, _)
WrittenTags(doc, i) ==
    IF i > Len(doc) THEN <<>>
    ELSE IF doc[i] = "<" /\ IndexFrom(doc, ">", i) # 0
    THEN <<SubSeq(doc, i, IndexFrom(doc, ">", i))>>
         \o WrittenTags(doc, IndexFrom(doc, ">", i) + 1)
    ELSE WrittenTags(doc, i + 1)

ExampleResult ==
    <<"<","d","i","v",">","H","o","l","a","<","/","d","i","v",">",
      "<","i","m","g"," ","s","r","c","=","\"","a",".","j","p","g","\""," ",
      "a","l","t","=","\"","C","i","e","l","o","\""," ","/",">",
      "<","s","p","a","n",">","M","u","n","d","o","<","/","s","p","a","n",">">>

\* C4: when the structural parse succeeds,
\* the alt of an img and the title of any element are extracted as
\* segments of their own; the reconstructed tag carries the translated segment
\* of that index in that attribute and every other attribute with its original
\* value; img, br, hr, input, meta and link are written with a trailing ' />';
\* and the example of the three segments Hello, Sky, World gives the expected
\* HTML.
C4_AttributeSegments ==
    (spc = "done" /\ structure_map.type = "root") =>
        LET items == TagItems(structure_map.content)
            out == TagList(Soup(result), 0)
            n == Len(translated_segments)
            altIn(item) == /\ "alt_placeholder_index" \in DOMAIN item
                           /\ item.alt_placeholder_index < n
            titleIn(item) == /\ "title_placeholder_index" \in DOMAIN item
                             /\ item.title_placeholder_index < n
        IN  /\ Len(out) = Len(items)
            /\ \A i \in 1..Len(items) :
                   /\ out[i].name = items[i].tag_name
                   /\ DictKeys(out[i].attrs) = DictKeys(items[i].attributes)
                   /\ (items[i].tag_name = ImgName
                       /\ Strip(DictGet(items[i].attributes, AltKey)) # <<>>)
                          => /\ "alt_placeholder_index" \in DOMAIN items[i]
                             /\ text_segments[items[i].alt_placeholder_index + 1]
                                    = Strip(DictGet(items[i].attributes, AltKey))
                   /\ Strip(DictGet(items[i].attributes, TitleKey)) # <<>>
                          => /\ "title_placeholder_index" \in DOMAIN items[i]
                             /\ text_segments[items[i].title_placeholder_index + 1]
                                    = Strip(DictGet(items[i].attributes, TitleKey))
                   /\ altIn(items[i])
                          => DictGet(out[i].attrs, AltKey)
                                 = translated_segments[items[i].alt_placeholder_index + 1]
                   /\ titleIn(items[i])
                          => DictGet(out[i].attrs, TitleKey)
                                 = translated_segments[items[i].title_placeholder_index + 1]
                   /\ \A k \in DictKeys(items[i].attributes) :
                          (~(k = AltKey /\ altIn(items[i]))
                           /\ ~(k = TitleKey /\ titleIn(items[i])))
                              => DictGet(out[i].attrs, k) = DictGet(items[i].attributes, k)
            /\ \A j \in 1..Len(WrittenTags(result, 1)) :
                   LET tag == WrittenTags(result, 1)[j]
                   IN  Take(Tail(tag), PrefixLen(Tail(tag), NameChars)) \in SelfClosingTags
                           => EndsWith(tag, <<" ", "/", ">">>)
            /\ (html_content = ExampleChunk
                /\ translated_segments = MockTranslation(text_segments))
                   => result = ExampleResult

\* The example chunk has been reconstructed from the mock translation of its
\* three segments.
C4_Witness ==
    /\ spc = "done"
    /\ html_content = ExampleChunk
    /\ text_segments = << <<"H","e","l","l","o">>, <<"S","k","y">>,
                          <<"W","o","r","l","d">> >>
    /\ translated_segments = << <<"H","o","l","a">>, <<"C","i","e","l","o">>,
                                <<"M","u","n","d","o">> >>

\* The positions of a structure map: <<index, kind, original value>> for every
\* text item, every alt and every title that has a segment.
RECURSIVE OriginalValues(_)
OriginalValues(content_list) ==
    IF content_list = <<>> THEN {}
    ELSE LET item == Head(content_list)
             here ==
                 IF item.type = "text"
                 THEN {<<item.placeholder_index, "text", item.original_text>>}
                 ELSE (IF "alt_placeholder_index" \in DOMAIN item
                       THEN {<<item.alt_placeholder_index, "attribute",
                               DictGet(item.attributes, AltKey)>>}
                       ELSE {})
                      \cup (IF "title_placeholder_index" \in DOMAIN item
                            THEN {<<item.title_placeholder_index, "attribute",
                                    DictGet(item.attributes, TitleKey)>>}
                            ELSE {})
                      \cup OriginalValues(item.content)
         IN  here \cup OriginalValues(Tail(content_list))

\* The translated segments, followed by the original value of every position
\* they do not reach.
FilledWithOriginals(translated, map, n) ==
    [i \in 1..n |->
        IF i <= Len(translated) THEN translated[i]
        ELSE (CHOOSE p \in OriginalValues(map.content) : p[1] = i - 1)[3]]

\* C23: in render_content,
\* with fewer translated segments than extracted ones, every position
\* whose index is out of range renders its original text or keeps its original
\* attribute value: the result is the one that the translated segments
\* followed by these original values give, and none of these values is empty.
C23_OutOfRangeKeepsOriginal ==
    (spc = "done" /\ structure_map.type = "root"
     /\ Len(translated_segments) < Len(text_segments)) =>
        /\ \A p \in OriginalValues(structure_map.content) : p[3] # <<>>
        /\ \A i \in 0..(Len(text_segments) - 1) :
               \E p \in OriginalValues(structure_map.content) : p[1] = i
        /\ result = ReconstructHtmlFromStructure(
                        FilledWithOriginals(translated_segments, structure_map,
                                            Len(text_segments)),
                        structure_map)

\* The reconstructor has returned for a list that reaches neither a text
\* position nor an attribute of the chunk.
C23_Witness ==
    /\ spc = "done"
    /\ structure_map.type = "root"
    /\ Len(translated_segments) < Len(text_segments)
    /\ \E p \in OriginalValues(structure_map.content) :
           p[2] = "text" /\ p[1] >= Len(translated_segments)
    /\ \E p \in OriginalValues(structure_map.content) :
           p[2] = "attribute" /\ p[1] >= Len(translated_segments)

\* C24: extract_text_with_structure returns also when the structural parse
\* raises: the segments are those of the flat strategy, the structure map has
\* the type 'fallback' and holds the placeholder template, and
\* reconstruct_html_from_structure renders it by flat substitution.
C24_FallbackToFlat ==
    /\ spc \in {"extract", "translate", "reconstruct", "done"}
    /\ (spc # "extract" /\ structure_map.type # "root") =>
           /\ structure_map.type = "fallback"
           /\ text_segments = ExtractTextFromHtml(html_content).segments
           /\ structure_map.template = ExtractTextFromHtml(html_content).template
           /\ spc = "done" =>
                  result = ReconstructFrom(translated_segments,
                               ExtractTextFromHtml(html_content).template, 1)

\* The reconstructor has returned for a fallback map with two segments and
\* their translation.
C24_Witness ==
    /\ spc = "done"
    /\ structure_map.type = "fallback"
    /\ Len(text_segments) = 2
    /\ Len(translated_segments) = 2
    /\ translated_segments # text_segments
    /\ result # html_content

-----------------------------------------------------------------------------
(* Claims about split_html_into_chunks                                     *)

\* A chunk that is one tag and nothing else.
SingleTag(chunk) ==
    /\ chunk # <<>>
    /\ Head(chunk) = "<"
    /\ chunk[Len(chunk)] = ">"
    /\ Count(chunk, "<") = 1
    /\ Count(chunk, ">") = 1

\* C5: every chunk split_html_into_chunks returns has at most max_chars
\* characters, unless it is a single tag that is longer than max_chars.
C5_ChunkBound ==
    cpc = "done" =>
        \A i \in 1..Len(returned) :
            \/ Len(returned[i]) <= max_chars
            \/ SingleTag(returned[i])

\* The function has returned for a document with a chunk that the third step
\* had to slice, and one of the slices fills the window.
C5_Witness ==
    /\ cpc = "done"
    /\ \E i \in 1..Len(final_chunks) : Len(final_chunks[i]) > max_chars
    /\ \E i \in 1..Len(returned) : Len(returned[i]) = max_chars

\* C16: in the slicing loop of step 3 the window start strictly increases on
\* every iteration, so the loop ends: whenever the loop is about to run an
\* iteration, that iteration adds a positive number to start.
C16_StartIncreases ==
    (cpc = "slicing" /\ start < Len(final_chunks[chunk_idx])) =>
        SliceAdvance(Window(final_chunks[chunk_idx], start, max_chars), max_chars) > 0

\* Whether each "<" of a slice is followed by a ">" in the same slice.
TagsTerminated(slice) ==
    \A k \in 1..Len(slice) :
        slice[k] = "<" => \E j \in (k + 1)..Len(slice) : slice[j] = ">"

\* C19: no slice that an iteration of the slicing loop of step 3 appends has
\* an unterminated tag open, whenever its window holds a ">" to cut at.
C19_NoOpenTagInSlice ==
    (cpc = "slicing" /\ start < Len(final_chunks[chunk_idx])) =>
        LET slice == Window(final_chunks[chunk_idx], start, max_chars)
        IN  RFind(slice, ">") # -1 =>
                \A i \in 1..Len(SliceEmit(slice)) : TagsTerminated(SliceEmit(slice)[i])

\* C20: the returned chunks add nothing to the document: every character of
\* their concatenation that is not white space is a character of the document,
\* in the same order.
C20_NothingAdded ==
    cpc = "done" =>
        IsSubsequence(NonWhitespace(Concat(returned)), NonWhitespace(html))

\* C6: the concatenation of the returned chunks holds every character of the
\* document that is not white space, in the original order: no text and no tag
\* is lost or reordered.
C6_NothingLost ==
    cpc = "done" =>
        IsSubsequence(NonWhitespace(html), NonWhitespace(Concat(returned)))

-----------------------------------------------------------------------------
(* Claims about _parse_numbered_translation                                *)

\* C1: for every response and every expected_count >= 0 the parser returns a
\* list of exactly expected_count strings.
C1_ExactCount ==
    ppc = "done" =>
        /\ Len(parsed) = expected_count
        /\ \A i \in 1..Len(parsed) : parsed[i] \in Seq(ResponseChars)

\* The parser has returned for a response with fewer segments than expected
\* and for one with more.
C1_Witness ==
    /\ ppc = "done"
    /\ expected_count = 2
    /\ Len(RecoveredSegments(translation_response)) = 1

\* The segments the lines of a response stand for: a line that begins with an
\* ordinal marker opens a segment with the trimmed rest of the line, any other
\* line that is not blank is appended to the last segment after one space, or
\* dropped when there is none.
MarkedLine(segments, raw) ==
    LET line == Strip(raw)
    IN  IF HasOrdinalMarker(line) THEN Append(segments, Strip(AfterMarker(line)))
        ELSE IF line # <<>> /\ segments # <<>>
        THEN [segments EXCEPT ![Len(segments)] = @ \o <<" ">> \o line]
        ELSE segments

RECURSIVE MarkedLines(_, _)
MarkedLines(segments, lines) ==
    IF lines = <<>> THEN segments
    ELSE MarkedLines(MarkedLine(segments, Head(lines)), Tail(lines))

\* C17: the k-th line that begins with an ordinal marker is segment k-1 of the
\* result, with the lines without a marker that follow it appended after one
\* space each, as far as the result reaches.
C17_MarkerOpensSegment ==
    ppc = "done" =>
        LET opened == MarkedLines(<<>>, Split(Strip(translation_response), <<"\n">>))
        IN  \A k \in 1..Min(Len(opened), expected_count) : parsed[k] = opened[k]

\* C18: with r segments recovered, the result is these r segments in order
\* followed by expected_count - r empty strings when r < expected_count, and
\* the first expected_count of them in order when r > expected_count.
C18_PositionsKept ==
    ppc = "done" =>
        LET recovered == RecoveredSegments(translation_response)
            r == Len(recovered)
        IN  /\ r < expected_count =>
                /\ Len(parsed) = expected_count
                /\ \A k \in 1..r : parsed[k] = recovered[k]
                /\ \A k \in (r + 1)..expected_count : parsed[k] = <<>>
            /\ r > expected_count =>
                /\ Len(parsed) = expected_count
                /\ \A k \in 1..expected_count : parsed[k] = recovered[k]

\* The parser has returned three strings for a response of two different
\* segments: the two segments in order and one empty string.
C18_Witness ==
    /\ ppc = "done"
    /\ expected_count = 3
    /\ Len(RecoveredSegments(translation_response)) = 2
    /\ parsed[1] # parsed[2]
    /\ parsed[2] # <<>>
    /\ parsed[3] = <<>>

=============================================================================
